---- MODULE Spec2Model ----
(***************************************************************************)
(* JobSeeker: the scrape -> upsert -> score pipeline.                      *)
(*                                                                         *)
(* The node process is single threaded: a handler runs without interleaving*)
(* from one await to the next.  Every action below is one such stretch of  *)
(* synchronous code.  better-sqlite3 statements are synchronous, so a      *)
(* statement (and a loop of statements with no await inside) is atomic.    *)
(* Wall-clock columns (scraped_at, started_at, completed_at, scored_at)    *)
(* are not modelled.                                                       *)
(***************************************************************************)
EXTENDS Integers, Sequences, FiniteSets, TLC

(***************************************************************************)
(* Bounds of the model.                                                    *)
(***************************************************************************)
\* top-level invocations (CLI commands / HTTP requests) in one behaviour
NumCalls == 2
\* longest RawJob[] one adapter.scrape() resolves with
MaxBatch == 2
\* cap on the number of upsertJob calls in one behaviour of Spec
MaxUpserts == 2
\* cap on the number of upsertJob calls in one behaviour of SpecAll
MaxUpsertsAll == 1

\* most job rows in the database SpecScore starts from
MaxStored == 2
\* largest explicit limit handed to scoreUnscored, besides the default
MaxLimit == 1

Calls == 1..NumCalls
\* create() calls the invocations of one behaviour of SpecScore make in all
MaxJudgeCalls == 4
\* pieces a string given to a filter in SpecFilter is put together from
MaxPieces == 3
\* create() calls the invocation of one behaviour of SpecRetry makes
MaxRetryCalls == 6
MaxListings == 2
\* SpecScore runs two scoreUnscored invocations, possibly concurrently
ScoreCalls == {1, 2}

(***************************************************************************)
(* JavaScript values.  Every value is a one-field record tagged by its     *)
(* type, so that undefined, null, strings, numbers and JSON text are       *)
(* distinct and comparable.                                                *)
(***************************************************************************)
Undefined == [undef |-> TRUE]
Null == [null |-> TRUE]
Str(s) == [str |-> s]
Num(n) == [num |-> n]
Arr(s) == [arr |-> s]
Obj(o) == [obj |-> o]

\* x ?? d
Coalesce(x, d) == IF x = Undefined \/ x = Null THEN d ELSE x

\* JSON.stringify(x): the column holds text, not the array or object
JSONstringify(x) == [json |-> x]

\* uuidv4(): the k-th draw of the process; draws never collide
uuidv4(k) == [uuid |-> k]

\* new Error(msg)
ErrorObj(msg) == [error |-> msg]

\* String(x) of a thrown value that is not an Error
String(x) == IF "str" \in DOMAIN x THEN x.str ELSE ToString(x.num)

(***************************************************************************)
(* RawJob: what an adapter hands to the orchestrator.                      *)
(***************************************************************************)
SourceIds == {"a", "b"}
Variants == {1, 2}

\* variant 1 fills every optional field, variant 2 leaves them all out
RawJobOf(sid, v) ==
    IF v = 1
    THEN [sourceId |-> sid, url |-> Str("https://x/1"), title |-> Str("Senior PM"),
          company |-> Str("Acme"), description |-> Str("d1"),
          location |-> Str("Remote"), locationType |-> Str("REMOTE"),
          seniority |-> Str("3"), category |-> Str("product"),
          salaryMin |-> Num(100), salaryMax |-> Num(200),
          tags |-> Arr(<<"defi">>), chains |-> Arr(<<"eth">>),
          postedAt |-> Str("2026-01-01T00:00:00.000Z"), rawData |-> Obj("raw1")]
    ELSE [sourceId |-> sid, url |-> Undefined, title |-> Str("BD Lead"),
          company |-> Undefined, description |-> Undefined,
          location |-> Undefined, locationType |-> Undefined,
          seniority |-> Undefined, category |-> Undefined,
          salaryMin |-> Undefined, salaryMax |-> Undefined,
          tags |-> Undefined, chains |-> Undefined,
          postedAt |-> Undefined, rawData |-> Undefined]

RawJobs == {RawJobOf(sid, v) : sid \in SourceIds, v \in Variants}

SeqsUpTo(S, n) == UNION {[1..k -> S] : k \in 0..n}

(***************************************************************************)
(* The jobs table.                                                         *)
(***************************************************************************)
\* the fourteen mutable columns as upsertJob binds them
BoundColumns(job) ==
    [url |-> Coalesce(job.url, Null), title |-> job.title,
     company |-> Coalesce(job.company, Null),
     description |-> Coalesce(job.description, Null),
     location |-> Coalesce(job.location, Null),
     locationType |-> Coalesce(job.locationType, Null),
     seniority |-> Coalesce(job.seniority, Null),
     category |-> Coalesce(job.category, Null),
     salaryMin |-> Coalesce(job.salaryMin, Null),
     salaryMax |-> Coalesce(job.salaryMax, Null),
     tags |-> JSONstringify(Coalesce(job.tags, Arr(<<>>))),
     chains |-> JSONstringify(Coalesce(job.chains, Arr(<<>>))),
     postedAt |-> Coalesce(job.postedAt, Null),
     rawData |-> JSONstringify(Coalesce(job.rawData, Obj("{}")))]

\* SELECT id FROM jobs WHERE source = ? AND source_id = ?
SelectBySourceKey(tbl, source, sourceId) ==
    {r \in tbl : r.source = source /\ r.sourceId = sourceId}

\* a plausible bug: the UPDATE leaves the title column out
UpdateJobKeepsTitle(tbl, id, job) ==
    {IF r.id = id
     THEN [id |-> r.id, source |-> r.source, sourceId |-> r.sourceId]
          @@ [BoundColumns(job) EXCEPT !.title = r.title]
     ELSE r : r \in tbl}

\* UPDATE jobs SET <the fourteen columns> WHERE id = ?
UpdateJob(tbl, id, job) ==
    {IF r.id = id
     THEN [id |-> r.id, source |-> r.source, sourceId |-> r.sourceId] @@ BoundColumns(job)
     ELSE r : r \in tbl}

\* INSERT INTO jobs (...) VALUES (...)
InsertJob(tbl, id, job) ==
    tbl \cup {[id |-> id, source |-> job.source, sourceId |-> job.sourceId]
              @@ BoundColumns(job)}

\* a plausible bug: no lookup, every call inserts
upsertJobAlwaysInserts(tbl, job, id) ==
    [jobs |-> InsertJob(tbl, id, job), id |-> id, isNew |-> TRUE]

\* a plausible bug: INSERT OR REPLACE, the row is rewritten under the new uuid
upsertJobReplaces(tbl, job, id) ==
    LET existing == SelectBySourceKey(tbl, job.source, job.sourceId)
    IN  IF existing # {}
        THEN [jobs |-> InsertJob(tbl \ existing, id, job), id |-> id, isNew |-> FALSE]
        ELSE [jobs |-> InsertJob(tbl, id, job), id |-> id, isNew |-> TRUE]

\* upsertJob(job), with id the uuid drawn at its first line
upsertJob(tbl, job, id) ==
    LET existing == SelectBySourceKey(tbl, job.source, job.sourceId)
    IN  IF existing # {}
        THEN LET e == CHOOSE r \in existing : TRUE
             IN  [jobs |-> UpdateJob(tbl, e.id, job), id |-> e.id, isNew |-> FALSE]
        ELSE [jobs |-> InsertJob(tbl, id, job), id |-> id, isNew |-> TRUE]

(***************************************************************************)
(* The scrape_runs table: a sequence, the AUTOINCREMENT id is the index.   *)
(***************************************************************************)
\* startScrapeRun(source): status takes the column default 'running'
startScrapeRun(runs, source) ==
    [runs |-> Append(runs, [source |-> source, status |-> "running",
                            jobsFound |-> 0, jobsNew |-> 0, error |-> Null]),
     id |-> Len(runs) + 1]

\* completeScrapeRun(id, status, jobsFound, jobsNew, error?)
completeScrapeRun(runs, id, status, jobsFound, jobsNew, error) ==
    [i \in DOMAIN runs |->
        IF i = id
        THEN [source |-> runs[i].source, status |-> status, jobsFound |-> jobsFound,
              jobsNew |-> jobsNew, error |-> Coalesce(error, Null)]
        ELSE runs[i]]

(***************************************************************************)
(* State.                                                                  *)
(***************************************************************************)
VARIABLES
    jobs,          \* the jobs table: a set of rows
    scrape_runs,   \* the scrape_runs table
    uuidCount,     \* uuidv4() draws so far
    upsertsLeft,   \* model bound: upsertJob calls the behaviour may still make
    call,          \* per top-level invocation: which entry point it called
    rs,            \* per invocation: the runScraper frame it is in
    ra,            \* per invocation: the runAllScrapers frame
    closeCount,    \* history: completeScrapeRun calls per run id
    runOwner,      \* history: the invocation that opened each run
    settled,       \* history: how adapter.scrape() of each invocation settled
    upsertLog,     \* history: every upsertJob call, its caller and its result
    job_scores,    \* the job_scores table: a set of rows
    apiKey,        \* process.env.OPENAI_API_KEY
    judgeLeft,     \* model bound: create() calls the behaviour may still make
    sc,            \* per scoreUnscored invocation: its frame
    scoreLog,      \* history: per invocation, what became of each job it took up
    lastTry,       \* history: per invocation, the create() call that settled last
    lastWrite,     \* history: per job id, the argument of the last upsertScore
                   \* call that returned
    filterIn,      \* SpecFilter: the arguments of the filter call
    filterOut,     \* SpecFilter: its result, Null before the call
    served,        \* SpecAdapter: the adapter called and what its source serves
    scraped        \* SpecAdapter: how scrape() settled, Null before the call

scrapeVars == <<jobs, scrape_runs, uuidCount, upsertsLeft, call, rs, ra, closeCount,
                runOwner, settled, upsertLog>>
scoreVars == <<job_scores, apiKey, judgeLeft, sc, scoreLog, lastTry, lastWrite>>
pureVars == <<filterIn, filterOut, served, scraped>>
vars == <<scrapeVars, scoreVars, pureVars>>

(***************************************************************************)
(* The adapter registry and the lookup adapters[source].                   *)
(***************************************************************************)
\* Object.keys(adapters), in insertion order
SourceOrder == <<"jobstash", "safary", "web3career", "cryptojobslist">>
RegistryKeys == {SourceOrder[i] : i \in DOMAIN SourceOrder}

\* names runScraper is called with: the registry keys, a name that is no
\* property at all, and two names the object literal inherits from
\* Object.prototype
SourceNames == RegistryKeys \cup {"linkedin", "constructor", "__proto__"}

\* adapters[source] on a plain object literal: own properties first, then the
\* prototype chain.  "factory": a registered () => ScraperAdapter;
\* "Object": the inherited Object constructor, callable, returns {};
\* "prototype": the inherited __proto__ accessor's value, an object that is
\* truthy and not callable; "undefined": no such property
Lookup(source) ==
    IF source \in RegistryKeys THEN "factory"
    ELSE IF source = "constructor" THEN "Object"
    ELSE IF source = "__proto__" THEN "prototype"
    ELSE "undefined"

(***************************************************************************)
(* runScraper                                                              *)
(***************************************************************************)
NoFrame ==
    [pc |-> "none", source |-> "", adapter |-> "none", runId |-> 0,
     result |-> Null, error |-> Null]

\* what adapter.scrape() can reject with: an Error, or a thrown non-Error
ScrapeErrors == {ErrorObj("fetch failed"), Num(503)}

\* error instanceof Error ? error.message : String(error)
ErrorMessage(e) == IF "error" \in DOMAIN e THEN Str(e.error) ELSE Str(String(e))

\* a plausible bug: every upsert counts as new
jobsNewCountsAll(jobsNew, result) == jobsNew + 1

\* a plausible bug: the test is inverted, updates are counted
jobsNewCountsUpdates(jobsNew, result) == IF result.isNew THEN jobsNew ELSE jobsNew + 1

\* if (result.isNew) jobsNew++
jobsNewStep(jobsNew, result) == IF result.isNew THEN jobsNew + 1 ELSE jobsNew

\* for (const raw of rawJobs) { upsertJob({ source, ...raw }); ... } from index i
\* upserts collects the calls made: the argument and the returned pair
RECURSIVE upsertLoop(_, _, _, _, _, _, _)
upsertLoop(source, rawJobs, i, tbl, uuid, jobsNew, upserts) ==
    IF i > Len(rawJobs)
    THEN [jobs |-> tbl, uuid |-> uuid, jobsNew |-> jobsNew, upserts |-> upserts]
    ELSE LET job == [source |-> source] @@ rawJobs[i]
             result == upsertJob(tbl, job, uuidv4(uuid + 1))
         IN  upsertLoop(source, rawJobs, i + 1, result.jobs, uuid + 1,
                        jobsNewStep(jobsNew, result),
                        Append(upserts, [job |-> job, id |-> result.id,
                                         isNew |-> result.isNew]))

\* the try block after adapter.scrape() resolved with rawJobs
runScraperTry(fr, rawJobs, tbl, runs, uuid) ==
    LET loop == upsertLoop(fr.source, rawJobs, 1, tbl, uuid, 0, <<>>)
    IN  [frame |-> [fr EXCEPT !.pc = "returned",
                              !.result = [jobsFound |-> Len(rawJobs),
                                          jobsNew |-> loop.jobsNew]],
         jobs |-> loop.jobs,
         runs |-> completeScrapeRun(runs, fr.runId, "completed", Len(rawJobs),
                                    loop.jobsNew, Undefined),
         uuid |-> loop.uuid,
         completed |-> {fr.runId}, upserts |-> loop.upserts]

\* a plausible bug: the error is rethrown without closing the run
runScraperCatchLeavesRunning(fr, e, tbl, runs, uuid) ==
    [frame |-> [fr EXCEPT !.pc = "threw", !.error = e],
     jobs |-> tbl, runs |-> runs, uuid |-> uuid, completed |-> {}, upserts |-> <<>>]

\* a plausible bug: the error is logged and swallowed
runScraperCatchSwallows(fr, e, tbl, runs, uuid) ==
    [frame |-> [fr EXCEPT !.pc = "returned",
                          !.result = [jobsFound |-> 0, jobsNew |-> 0]],
     jobs |-> tbl,
     runs |-> completeScrapeRun(runs, fr.runId, "failed", 0, 0, ErrorMessage(e)),
     uuid |-> uuid, completed |-> {fr.runId}, upserts |-> <<>>]

\* a plausible bug: the catch block also drops the source's stored jobs
runScraperCatchClearsSource(fr, e, tbl, runs, uuid) ==
    [frame |-> [fr EXCEPT !.pc = "threw", !.error = e],
     jobs |-> {r \in tbl : r.source # fr.source},
     runs |-> completeScrapeRun(runs, fr.runId, "failed", 0, 0, ErrorMessage(e)),
     uuid |-> uuid, completed |-> {fr.runId}, upserts |-> <<>>]

\* the catch block: close the run as failed, rethrow the same error
runScraperCatch(fr, e, tbl, runs, uuid) ==
    [frame |-> [fr EXCEPT !.pc = "threw", !.error = e],
     jobs |-> tbl,
     runs |-> completeScrapeRun(runs, fr.runId, "failed", 0, 0, ErrorMessage(e)),
     uuid |-> uuid, completed |-> {fr.runId}, upserts |-> <<>>]

\* runScraper(source) up to its await: the lookup, factory(), startScrapeRun
\* and the call adapter.scrape()
runScraperBegin(source, tbl, runs, uuid) ==
    LET factory == Lookup(source)
        started == startScrapeRun(runs, source)
        fr == [NoFrame EXCEPT !.source = source]
    IN  CASE factory = "undefined" ->
               [frame |-> [fr EXCEPT !.pc = "threw",
                                     !.error = ErrorObj("Unknown source: " \o source)],
                jobs |-> tbl, runs |-> runs, uuid |-> uuid,
                opened |-> {}, completed |-> {}, upserts |-> <<>>]
          [] factory = "prototype" ->
               [frame |-> [fr EXCEPT !.pc = "threw",
                                     !.error = ErrorObj("factory is not a function")],
                jobs |-> tbl, runs |-> runs, uuid |-> uuid,
                opened |-> {}, completed |-> {}, upserts |-> <<>>]
          [] factory = "Object" ->
               \* Object() returns {}, the run is opened, and {}.scrape() throws
               \* a TypeError inside the try block
               runScraperCatch([fr EXCEPT !.adapter = "Object", !.runId = started.id],
                               ErrorObj("adapter.scrape is not a function"),
                               tbl, started.runs, uuid)
               @@ [opened |-> {started.id}]
          [] OTHER ->
               [frame |-> [fr EXCEPT !.pc = "scraping", !.adapter = source,
                                     !.runId = started.id],
                jobs |-> tbl, runs |-> started.runs, uuid |-> uuid,
                opened |-> {started.id}, completed |-> {}, upserts |-> <<>>]

(***************************************************************************)
(* runAllScrapers                                                          *)
(***************************************************************************)
Pending == [pending |-> TRUE]
NoResults == [x \in {} |-> 0]
ZeroResult == [jobsFound |-> 0, jobsNew |-> 0]

\* a plausible bug: the next source is started without awaiting the last one
NotAwaited(fr) == fr.pc \in {"scraping", "returned", "threw"}

\* await runScraper(source): the loop resumes once the promise has settled
Settled(fr) == fr.pc \in {"returned", "threw"}

\* a plausible bug: a failed source gets no entry
runAllEntryDropsFailures(results, fr) ==
    IF fr.pc = "returned" THEN (fr.source :> fr.result) @@ results ELSE results

\* results[source] = await runScraper(source), or the zero entry of the catch
runAllEntry(results, fr) ==
    (fr.source :> (IF fr.pc = "returned" THEN fr.result ELSE ZeroResult)) @@ results

(***************************************************************************)
(* Actions of the scrape orchestrator.                                     *)
(***************************************************************************)
\* invocations are numbered in the order they start
MayStart(p) == call[p] = "none" /\ \A q \in Calls : q < p => call[q] # "none"

\* the effect of one synchronous stretch of runScraper of invocation p
Apply(p, step) ==
    /\ rs' = [rs EXCEPT ![p] = step.frame]
    /\ jobs' = step.jobs
    /\ scrape_runs' = step.runs
    /\ uuidCount' = step.uuid
    /\ upsertsLeft' = upsertsLeft - (step.uuid - uuidCount)
    /\ closeCount' =
          [i \in DOMAIN step.runs |->
              (IF i \in DOMAIN closeCount THEN closeCount[i] ELSE 0)
              + (IF i \in step.completed THEN 1 ELSE 0)]
    /\ runOwner' =
          [i \in DOMAIN step.runs |->
              IF i \in DOMAIN runOwner THEN runOwner[i] ELSE p]
    /\ upsertLog' =
          upsertLog \o [i \in DOMAIN step.upserts |-> [by |-> p] @@ step.upserts[i]]

\* CLI `scrape <source>` or POST /jobs/scrape {source}
CallRunScraper(p, source) ==
    /\ MayStart(p)
    /\ call' = [call EXCEPT ![p] = "runScraper"]
    /\ Apply(p, runScraperBegin(source, jobs, scrape_runs, uuidCount))
    /\ UNCHANGED <<ra, settled, scoreVars, pureVars>>

\* CLI `scrape all`, POST /jobs/scrape, POST /jobs/scrape-and-score: the loop
\* enters runScraper for the first key at once
CallRunAllScrapers(p) ==
    /\ MayStart(p)
    /\ call' = [call EXCEPT ![p] = "runAllScrapers"]
    /\ ra' = [ra EXCEPT ![p] = [pc |-> "loop", idx |-> 1, results |-> NoResults]]
    /\ Apply(p, runScraperBegin(SourceOrder[1], jobs, scrape_runs, uuidCount))
    /\ UNCHANGED <<settled, scoreVars, pureVars>>

\* adapter.scrape() resolves with rawJobs
ScrapeResolves(p, rawJobs) ==
    /\ rs[p].pc = "scraping"
    /\ Len(rawJobs) <= upsertsLeft
    /\ Apply(p, runScraperTry(rs[p], rawJobs, jobs, scrape_runs, uuidCount))
    /\ settled' = [settled EXCEPT ![p] = [resolved |-> rawJobs]]
    /\ UNCHANGED <<call, ra, scoreVars, pureVars>>

\* adapter.scrape() rejects with e
ScrapeRejects(p, e) ==
    /\ rs[p].pc = "scraping"
    /\ Apply(p, runScraperCatch(rs[p], e, jobs, scrape_runs, uuidCount))
    /\ settled' = [settled EXCEPT ![p] = [rejected |-> e]]
    /\ UNCHANGED <<call, ra, scoreVars, pureVars>>

\* runAllScrapers resumes after await runScraper(source): it records the
\* entry and enters runScraper for the next key, or returns results
RunAllResume(p) ==
    /\ ra[p].pc = "loop"
    /\ Settled(rs[p])
    /\ LET results == runAllEntry(ra[p].results, rs[p])
           next == ra[p].idx + 1
       IN  IF next <= Len(SourceOrder)
           THEN /\ ra' = [ra EXCEPT ![p] = [pc |-> "loop", idx |-> next,
                                            results |-> results]]
                /\ Apply(p, runScraperBegin(SourceOrder[next], jobs, scrape_runs,
                                            uuidCount))
                /\ settled' = [settled EXCEPT ![p] = Pending]
           ELSE /\ ra' = [ra EXCEPT ![p] = [pc |-> "returned", idx |-> next,
                                            results |-> results]]
                /\ rs' = [rs EXCEPT ![p] = NoFrame]
                /\ UNCHANGED <<jobs, scrape_runs, uuidCount, upsertsLeft, closeCount,
                               runOwner, settled, upsertLog>>
    /\ UNCHANGED <<call, scoreVars, pureVars>>

(***************************************************************************)
(* The scoring pipeline.                                                   *)
(***************************************************************************)
\* a JSON number with one decimal place, held in tenths: Dec(725) is 72.5
Dec(t) == [tenths |-> t]
NaN == [nan |-> TRUE]

\* typeof x === 'number'
IsNumber(x) == "tenths" \in DOMAIN x

\* Math.round(x): halves round up; NaN for undefined
MathRound(x) == IF IsNumber(x) THEN Num((x.tenths + 5) \div 10) ELSE NaN

MODEL == Str("gpt-4o-mini")
\* scoreUnscored's default limit
DefaultLimit == 50
\* withRetry's defaults
maxRetries == 3
baseDelayMs == 1000

RECURSIVE Pow2(_)
Pow2(n) == IF n = 0 THEN 1 ELSE 2 * Pow2(n - 1)

\* the objects the judge answers with, as JSON text in message.content
JudgeObject(overall, relevance, reasoning) ==
    [overall_score |-> overall, relevance_score |-> relevance,
     experience_match |-> Dec(600), domain_match |-> Dec(550),
     seniority_fit |-> Dec(900), reasoning |-> reasoning]

JudgeObjects ==
    {JudgeObject(Dec(725), Dec(804), Str("fits")),      \* as the prompt asks
     JudgeObject(Dec(1500), Dec(-50), Str("fits")),     \* outside 0..100
     JudgeObject(Undefined, Dec(800), Str("fits")),     \* no overall_score
     JudgeObject(Str("72"), Dec(800), Str("fits")),     \* overall_score a string
     JudgeObject(Dec(720), Undefined, Str("fits"))}     \* a sub-score missing

\* what one client.chat.completions.create() call can settle with
JudgeResponses ==
    {[rejected |-> ErrorObj("429 rate limited")],
     [content |-> Undefined],
     [content |-> Str("")],
     [content |-> Str("Sorry, I cannot")],
     [content |-> [json |-> Null]]}
    \cup {[content |-> JSONstringify(o)] : o \in JudgeObjects}

\* a plausible bug: any parsed object is accepted
attemptAcceptsAnyObject(resp) ==
    IF "rejected" \in DOMAIN resp
    THEN [ok |-> FALSE, error |-> resp.rejected]
    ELSE IF resp.content = Undefined \/ resp.content = Str("")
    THEN [ok |-> FALSE, error |-> ErrorObj("Empty response from LLM")]
    ELSE IF "json" \notin DOMAIN resp.content
    THEN [ok |-> FALSE, error |-> ErrorObj("SyntaxError")]
    ELSE IF resp.content.json = Null
    THEN [ok |-> FALSE, error |-> ErrorObj("TypeError: Cannot read properties of null")]
    ELSE [ok |-> TRUE, value |-> resp.content.json]

\* the callback scoreJob hands to withRetry: the create() call settles, the
\* content is trimmed, parsed and validated
attempt(resp) ==
    IF "rejected" \in DOMAIN resp
    THEN [ok |-> FALSE, error |-> resp.rejected]
    ELSE IF resp.content = Undefined \/ resp.content = Str("")
    THEN [ok |-> FALSE, error |-> ErrorObj("Empty response from LLM")]
    ELSE IF "json" \notin DOMAIN resp.content
    THEN [ok |-> FALSE, error |-> ErrorObj("SyntaxError")]
    ELSE IF resp.content.json = Null
    THEN [ok |-> FALSE, error |-> ErrorObj("TypeError: Cannot read properties of null")]
    ELSE IF ~IsNumber(resp.content.json.overall_score)
    THEN [ok |-> FALSE, error |-> ErrorObj("Invalid score format")]
    ELSE [ok |-> TRUE, value |-> resp.content.json]

\* the ids upsertJob gave the stored jobs
JobIds == {uuidv4(k) : k \in 1..MaxStored}

\* a plausible bug: INSERT OR IGNORE, the row of an earlier call stays
upsertScoreKeepsFirst(scores, score) ==
    IF \E r \in scores : r.jobId = score.jobId
    THEN [scores |-> scores, threw |-> FALSE, error |-> Undefined]
    ELSE [scores |-> scores \cup {score}, threw |-> FALSE, error |-> Undefined]

\* the NOT NULL columns of job_scores
NotNullColumns ==
    {"jobId", "overallScore", "relevanceScore", "experienceMatch", "domainMatch",
     "seniorityFit", "modelUsed"}

\* upsertScore(score): INSERT OR REPLACE INTO job_scores.  better-sqlite3
\* refuses to bind undefined; SQLite stores NaN as NULL, which the NOT NULL
\* columns reject; the row replaces the one with the same job_id
upsertScore(scores, score) ==
    LET bound == [c \in DOMAIN score |-> IF score[c] = NaN THEN Null ELSE score[c]]
    IN  IF \E c \in DOMAIN score : score[c] = Undefined
        THEN [scores |-> scores, threw |-> TRUE,
              error |-> ErrorObj("TypeError: SQLite3 can only bind numbers, strings, bigints, buffers, and null")]
        ELSE IF \E c \in NotNullColumns : bound[c] = Null
        THEN [scores |-> scores, threw |-> TRUE,
              error |-> ErrorObj("SqliteError: NOT NULL constraint failed")]
        ELSE [scores |-> {r \in scores : r.jobId # score.jobId} \cup {bound},
              threw |-> FALSE, error |-> Undefined]

\* the argument scoreJob builds for upsertScore from withRetry's result
ScoreOf(jobId, result) ==
    [jobId |-> jobId,
     overallScore |-> MathRound(result.overall_score),
     relevanceScore |-> MathRound(result.relevance_score),
     experienceMatch |-> MathRound(result.experience_match),
     domainMatch |-> MathRound(result.domain_match),
     seniorityFit |-> MathRound(result.seniority_fit),
     reasoning |-> result.reasoning,
     modelUsed |-> MODEL]

\* scoreJob after withRetry returned result: round and persist
scoreJobPersist(scores, jobId, result) ==
    upsertScore(scores, ScoreOf(jobId, result))

\* the rows SELECT ... FROM jobs j LEFT JOIN job_scores s ... WHERE s.job_id
\* IS NULL matches
Unscored(tbl, scores) == {j \in tbl : ~\E r \in scores : r.jobId = j.id}

\* LIMIT ?: a negative limit is no limit
LimitCount(limit, n) == IF limit < 0 \/ limit > n THEN n ELSE limit

\* getUnscoredJobs(limit): the statement has no ORDER BY, so any LimitCount
\* of the matching rows, in any order, is a result it can give
getUnscoredJobs(tbl, scores, limit) ==
    LET ids == {j.id : j \in Unscored(tbl, scores)}
        n == LimitCount(limit, Cardinality(ids))
    IN  {b \in [1..n -> ids] : \A i, j \in 1..n : b[i] = b[j] => i = j}

\* read: getUnscoredJobs was called; i: the position in the batch; attempt,
\* lastError, delay: withRetry's locals for job i; calls: create() calls made
\* for job i, the one in flight included
NoScoreFrame ==
    [pc |-> "none", limit |-> 0, read |-> FALSE, batch |-> <<>>, i |-> 0,
     attempt |-> 0, lastError |-> Undefined, delay |-> 0, calls |-> 0,
     scored |-> 0, ret |-> Null, error |-> Null]

\* withRetry: the delay after failed attempt k
RetryDelay(k) == baseDelayMs * Pow2(k)

\* a plausible bug: one attempt too many
withRetryCatchOneMore(fr, e) ==
    IF fr.attempt < maxRetries
    THEN [fr EXCEPT !.lastError = e, !.pc = "backoff",
                    !.delay = RetryDelay(fr.attempt)]
    ELSE [fr EXCEPT !.lastError = e, !.pc = "exhausted"]

\* withRetry's catch after attempt fr.attempt failed with e: keep the error,
\* then wait before the next attempt, or leave the loop and throw lastError
withRetryCatch(fr, e) ==
    IF fr.attempt < maxRetries - 1
    THEN [fr EXCEPT !.lastError = e, !.pc = "backoff",
                    !.delay = RetryDelay(fr.attempt)]
    ELSE [fr EXCEPT !.lastError = e, !.pc = "exhausted"]

\* a plausible bug: a job that fails ends the whole call
scoreUnscoredAbortsOnFailure(fr, ok) ==
    IF ~ok
    THEN [fr EXCEPT !.pc = "threw", !.error = ErrorObj("scoreJob failed")]
    ELSE IF fr.i < Len(fr.batch)
    THEN [fr EXCEPT !.scored = fr.scored + 1, !.i = fr.i + 1, !.attempt = 0,
                    !.lastError = Undefined, !.delay = 0, !.calls = 1,
                    !.pc = "judge"]
    ELSE [fr EXCEPT !.scored = fr.scored + 1, !.pc = "returned",
                    !.ret = Num(fr.scored + 1)]

\* scoreUnscored's loop after scoreJob of job i settled (ok: it returned;
\* otherwise the catch logs): count, then go to the next job's first judge
\* call, or return scored
scoreUnscoredNext(fr, ok) ==
    LET scored == IF ok THEN fr.scored + 1 ELSE fr.scored
    IN  IF fr.i < Len(fr.batch)
        THEN [fr EXCEPT !.scored = scored, !.i = fr.i + 1, !.attempt = 0,
                        !.lastError = Undefined, !.delay = 0, !.calls = 1,
                        !.pc = "judge"]
        ELSE [fr EXCEPT !.scored = scored, !.lastError = Undefined,
                        !.pc = "returned", !.ret = Num(scored)]

\* a plausible bug: the credential is not looked at before the batch is read
scoreUnscoredBeginNoKeyCheck(limit, batch, key) ==
    IF batch = <<>>
    THEN [NoScoreFrame EXCEPT !.pc = "returned", !.limit = limit, !.read = TRUE,
                              !.ret = Num(0)]
    ELSE [NoScoreFrame EXCEPT !.pc = "judge", !.limit = limit, !.read = TRUE,
                              !.batch = batch, !.i = 1, !.calls = 1]

\* scoreUnscored(limit) up to its first await: the credential check, the
\* read of the batch (batch: what getUnscoredJobs gives if it is called), and
\* the first judge call if the batch is not empty
scoreUnscoredBegin(limit, batch, key) ==
    IF key = Undefined \/ key = Str("")
    THEN [NoScoreFrame EXCEPT !.pc = "threw", !.limit = limit,
                              !.error = ErrorObj("OPENAI_API_KEY not set")]
    ELSE IF batch = <<>>
    THEN [NoScoreFrame EXCEPT !.pc = "returned", !.limit = limit, !.read = TRUE,
                              !.ret = Num(0)]
    ELSE [NoScoreFrame EXCEPT !.pc = "judge", !.limit = limit, !.read = TRUE,
                              !.batch = batch, !.i = 1, !.calls = 1]

\* the limits scoreUnscored is called with: `score <n>` and POST
\* /jobs/score pass any integer on, and the default
Limits == (-1..MaxLimit) \cup {DefaultLimit}

ScoreMayStart(q) ==
    sc[q].pc = "none" /\ \A r \in ScoreCalls : r < q => sc[r].pc # "none"

\* CLI `score [limit]` or POST /jobs/score {limit}
CallScoreUnscored(q, limit) ==
    /\ ScoreMayStart(q)
    /\ \E batch \in getUnscoredJobs(jobs, job_scores, limit) :
          /\ sc' = [sc EXCEPT ![q] = scoreUnscoredBegin(limit, batch, apiKey)]
          /\ scoreLog' = [scoreLog EXCEPT ![q] = <<>>]
    /\ UNCHANGED <<scrapeVars, pureVars, job_scores, apiKey, judgeLeft, lastTry, lastWrite>>

\* one create() call of invocation q settles with resp: the attempt returns
\* and scoreJob persists, or withRetry's catch retries or throws; what
\* scoreJob throws, scoreUnscored's catch logs
JudgeResponds(q, resp) ==
    /\ sc[q].pc = "judge"
    /\ judgeLeft > 0
    /\ judgeLeft' = judgeLeft - 1
    /\ LET fr == sc[q]
           jobId == fr.batch[fr.i]
           a == attempt(resp)
       IN  /\ lastTry' = [lastTry EXCEPT ![q] =
                            [jobId |-> jobId, attempt |-> fr.attempt, resp |-> resp,
                             result |-> a]]
           /\ IF a.ok
              THEN LET w == scoreJobPersist(job_scores, jobId, a.value)
                   IN  /\ job_scores' = w.scores
                       /\ lastWrite' = IF w.threw THEN lastWrite
                                       ELSE [lastWrite EXCEPT ![jobId] =
                                                 ScoreOf(jobId, a.value)]
                       /\ sc' = [sc EXCEPT ![q] = scoreUnscoredNext(fr, ~w.threw)]
                       /\ scoreLog' = [scoreLog EXCEPT ![q] =
                             Append(@, [jobId |-> jobId,
                                        outcome |-> IF w.threw THEN "persistFailed"
                                                    ELSE "scored",
                                        thrown |-> w.error])]
              ELSE LET c == withRetryCatch(fr, a.error)
                   IN  IF c.pc = "backoff"
                       THEN /\ sc' = [sc EXCEPT ![q] = c]
                            /\ UNCHANGED <<job_scores, scoreLog, lastWrite>>
                       ELSE /\ sc' = [sc EXCEPT ![q] = scoreUnscoredNext(c, FALSE)]
                            /\ scoreLog' = [scoreLog EXCEPT ![q] =
                                  Append(@, [jobId |-> jobId,
                                             outcome |-> "exhausted",
                                             thrown |-> c.lastError])]
                            /\ UNCHANGED <<job_scores, lastWrite>>
    /\ UNCHANGED <<scrapeVars, pureVars, apiKey>>

\* the backoff timer of withRetry fires: the next attempt's create() call
BackoffElapsed(q) ==
    /\ sc[q].pc = "backoff"
    /\ sc' = [sc EXCEPT ![q] = [@ EXCEPT !.pc = "judge", !.attempt = @ + 1,
                                          !.calls = @ + 1]]
    /\ UNCHANGED <<scrapeVars, pureVars, job_scores, apiKey, judgeLeft, scoreLog, lastTry,
                   lastWrite>>

(***************************************************************************)
(* Strings and regular expressions.  A string is a sequence of one-        *)
(* character strings; a regular expression is a tree, matched the way      *)
(* RegExp.prototype.test decides: some start position has a match.         *)
(***************************************************************************)
UpperCase ==
    <<"A", "B", "C", "D", "E", "F", "G", "H", "I", "J", "K", "L", "M",
      "N", "O", "P", "Q", "R", "S", "T", "U", "V", "W", "X", "Y", "Z">>
LowerCase ==
    <<"a", "b", "c", "d", "e", "f", "g", "h", "i", "j", "k", "l", "m",
      "n", "o", "p", "q", "r", "s", "t", "u", "v", "w", "x", "y", "z">>
Digits == {"0", "1", "2", "3", "4", "5", "6", "7", "8", "9"}

\* the /i flag: letters are compared in one case
Lower(c) ==
    IF \E k \in DOMAIN UpperCase : UpperCase[k] = c
    THEN LowerCase[CHOOSE k \in DOMAIN UpperCase : UpperCase[k] = c]
    ELSE c

\* \w without the u flag: ASCII letters, digits and underscore
IsWordChar(c) ==
    \/ \E k \in DOMAIN UpperCase : UpperCase[k] = c \/ LowerCase[k] = c
    \/ c \in Digits \/ c = "_"

\* \s, and what String.prototype.trim strips
WhiteSpace == {" ", "\t", "\n"}

\* position i of s holds a word character (positions outside s do not)
IsWordAt(s, i) == i >= 1 /\ i <= Len(s) /\ IsWordChar(s[i])

Lit(w) == [t |-> "lit", w |-> w]
AnyChar == [t |-> "any"]
Ws == [t |-> "ws"]
WordB == [t |-> "wordb"]
Opt(r) == [t |-> "opt", r |-> r]
Star(r) == [t |-> "star", r |-> r]
Cat(res) == [t |-> "cat", res |-> res]
Alt(res) == [t |-> "alt", res |-> res]

\* the positions after the matches of r in s that start at position i
RECURSIVE Ends(_, _, _)
RECURSIVE CatEnds(_, _, _, _)
Ends(r, s, i) ==
    CASE r.t = "lit" ->
            IF /\ i + Len(r.w) - 1 <= Len(s)
               /\ \A k \in DOMAIN r.w : Lower(s[i + k - 1]) = Lower(r.w[k])
            THEN {i + Len(r.w)} ELSE {}
      [] r.t = "any" -> IF i <= Len(s) /\ s[i] # "\n" THEN {i + 1} ELSE {}
      [] r.t = "ws" -> IF i <= Len(s) /\ s[i] \in WhiteSpace THEN {i + 1} ELSE {}
      [] r.t = "wordb" -> IF IsWordAt(s, i - 1) # IsWordAt(s, i) THEN {i} ELSE {}
      [] r.t = "opt" -> Ends(r.r, s, i) \cup {i}
      [] r.t = "star" ->
            {i} \cup UNION {Ends(r, s, j) : j \in Ends(r.r, s, i) \ {i}}
      [] r.t = "cat" -> CatEnds(r.res, 1, s, {i})
      [] r.t = "alt" -> UNION {Ends(r.res[k], s, i) : k \in DOMAIN r.res}

CatEnds(res, k, s, starts) ==
    IF k > Len(res) \/ starts = {} THEN starts
    ELSE CatEnds(res, k + 1, s, UNION {Ends(res[k], s, j) : j \in starts})

\* re.test(s)
test(re, s) == \E i \in 1..(Len(s) + 1) : Ends(re, s, i) # {}

\* s.trim()
trim(s) ==
    LET keep == {i \in DOMAIN s : s[i] \notin WhiteSpace}
    IN  IF keep = {} THEN <<>>
        ELSE SubSeq(s, CHOOSE i \in keep : \A j \in keep : i <= j,
                       CHOOSE i \in keep : \A j \in keep : i >= j)

\* a JavaScript string value
Text(s) == [text |-> s]

\* !x for a string, undefined or null
Falsy(x) == x = Undefined \/ x = Null \/ x = Text(<<>>)

(***************************************************************************)
(* The shared filters.                                                     *)
(***************************************************************************)
\* the alternatives of EXCLUDED_TITLE_PATTERNS, between its \b ... \b
ExcludedTitleTerms ==
    <<Lit(<<"i", "n", "t", "e", "r", "n">>),
      Lit(<<"i", "n", "t", "e", "r", "n", "s", "h", "i", "p">>),
      Lit(<<"j", "u", "n", "i", "o", "r">>), Cat(<<Lit(<<"j", "r">>), Opt(Lit(<<".">>))>>),
      Cat(<<Lit(<<"e", "n", "t", "r", "y">>), AnyChar, Lit(<<"l", "e", "v", "e", "l">>)>>),
      Lit(<<"g", "r", "a", "d", "u", "a", "t", "e">>),
      Lit(<<"t", "r", "a", "i", "n", "e", "e">>)>>

\* the alternatives of NON_US_PATTERNS
NonUSTerms ==
    <<Lit(<<"e", "u", "r", "o", "p", "e">>), Lit(<<"e", "u", "r", "o", "p", "e", "a", "n">>),
      Lit(<<"e", "m", "e", "a">>), Cat(<<Lit(<<"e", "u">>), WordB>>),
      Cat(<<Lit(<<"u", "k">>), WordB>>),
      Lit(<<"u", "n", "i", "t", "e", "d", " ", "k", "i", "n", "g", "d", "o", "m">>),
      Lit(<<"l", "o", "n", "d", "o", "n">>), Lit(<<"b", "e", "r", "l", "i", "n">>),
      Lit(<<"p", "a", "r", "i", "s">>), Lit(<<"a", "m", "s", "t", "e", "r", "d", "a", "m">>),
      Lit(<<"l", "i", "s", "b", "o", "n">>),
      Lit(<<"b", "a", "r", "c", "e", "l", "o", "n", "a">>), Lit(<<"s", "p", "a", "i", "n">>),
      Lit(<<"g", "e", "r", "m", "a", "n", "y">>), Lit(<<"f", "r", "a", "n", "c", "e">>),
      Lit(<<"n", "e", "t", "h", "e", "r", "l", "a", "n", "d", "s">>),
      Lit(<<"p", "o", "r", "t", "u", "g", "a", "l">>),
      Lit(<<"i", "r", "e", "l", "a", "n", "d">>),
      Lit(<<"s", "w", "i", "t", "z", "e", "r", "l", "a", "n", "d">>),
      Lit(<<"p", "o", "l", "a", "n", "d">>), Lit(<<"w", "a", "r", "s", "a", "w">>),
      Lit(<<"c", "z", "e", "c", "h">>), Lit(<<"a", "u", "s", "t", "r", "i", "a">>),
      Lit(<<"i", "t", "a", "l", "y">>), Lit(<<"s", "w", "e", "d", "e", "n">>),
      Lit(<<"d", "e", "n", "m", "a", "r", "k">>), Lit(<<"n", "o", "r", "w", "a", "y">>),
      Lit(<<"f", "i", "n", "l", "a", "n", "d">>), Lit(<<"b", "e", "l", "g", "i", "u", "m">>),
      Lit(<<"r", "o", "m", "a", "n", "i", "a">>), Lit(<<"h", "u", "n", "g", "a", "r", "y">>),
      Lit(<<"c", "r", "o", "a", "t", "i", "a">>), Lit(<<"s", "e", "r", "b", "i", "a">>),
      Lit(<<"g", "r", "e", "e", "c", "e">>), Lit(<<"u", "k", "r", "a", "i", "n", "e">>),
      Lit(<<"r", "u", "s", "s", "i", "a">>), Lit(<<"t", "u", "r", "k", "e", "y">>),
      Lit(<<"i", "s", "r", "a", "e", "l">>), Lit(<<"t", "e", "l", " ", "a", "v", "i", "v">>),
      Lit(<<"d", "u", "b", "a", "i">>), Lit(<<"u", "a", "e">>),
      Lit(<<"s", "a", "u", "d", "i">>), Lit(<<"q", "a", "t", "a", "r">>),
      Lit(<<"m", "i", "d", "d", "l", "e", " ", "e", "a", "s", "t">>),
      Lit(<<"a", "f", "r", "i", "c", "a">>), Lit(<<"n", "i", "g", "e", "r", "i", "a">>),
      Lit(<<"s", "o", "u", "t", "h", " ", "a", "f", "r", "i", "c", "a">>),
      Lit(<<"k", "e", "n", "y", "a">>), Lit(<<"i", "n", "d", "i", "a">>),
      Lit(<<"b", "a", "n", "g", "a", "l", "o", "r", "e">>),
      Lit(<<"m", "u", "m", "b", "a", "i">>),
      Lit(<<"h", "y", "d", "e", "r", "a", "b", "a", "d">>), Lit(<<"d", "e", "l", "h", "i">>),
      Lit(<<"p", "a", "k", "i", "s", "t", "a", "n">>),
      Lit(<<"b", "a", "n", "g", "l", "a", "d", "e", "s", "h">>),
      Lit(<<"c", "h", "i", "n", "a">>), Lit(<<"b", "e", "i", "j", "i", "n", "g">>),
      Lit(<<"s", "h", "a", "n", "g", "h", "a", "i">>),
      Lit(<<"s", "h", "e", "n", "z", "h", "e", "n">>),
      Lit(<<"h", "o", "n", "g", " ", "k", "o", "n", "g">>), Lit(<<"j", "a", "p", "a", "n">>),
      Lit(<<"t", "o", "k", "y", "o">>), Lit(<<"k", "o", "r", "e", "a">>),
      Lit(<<"s", "o", "u", "t", "h", " ", "k", "o", "r", "e", "a">>),
      Lit(<<"s", "i", "n", "g", "a", "p", "o", "r", "e">>),
      Lit(<<"p", "h", "i", "l", "i", "p", "p", "i", "n", "e", "s">>),
      Lit(<<"v", "i", "e", "t", "n", "a", "m">>),
      Lit(<<"t", "h", "a", "i", "l", "a", "n", "d">>),
      Lit(<<"i", "n", "d", "o", "n", "e", "s", "i", "a">>),
      Lit(<<"m", "a", "l", "a", "y", "s", "i", "a">>), Lit(<<"t", "a", "i", "w", "a", "n">>),
      Lit(<<"a", "p", "a", "c">>), Lit(<<"a", "s", "i", "a">>),
      Lit(<<"l", "a", "t", "i", "n", " ", "a", "m", "e", "r", "i", "c", "a">>),
      Lit(<<"l", "a", "t", "a", "m">>), Lit(<<"b", "r", "a", "z", "i", "l">>),
      Lit(<<"s", "ã", "o", " ", "p", "a", "u", "l", "o">>),
      Lit(<<"s", "a", "o", " ", "p", "a", "u", "l", "o">>),
      Lit(<<"m", "e", "x", "i", "c", "o">>),
      Lit(<<"a", "r", "g", "e", "n", "t", "i", "n", "a">>),
      Lit(<<"c", "o", "l", "o", "m", "b", "i", "a">>), Lit(<<"c", "h", "i", "l", "e">>),
      Lit(<<"p", "e", "r", "u">>), Lit(<<"c", "a", "n", "a", "d", "a">>),
      Lit(<<"v", "a", "n", "c", "o", "u", "v", "e", "r">>),
      Lit(<<"t", "o", "r", "o", "n", "t", "o">>),
      Lit(<<"m", "o", "n", "t", "r", "e", "a", "l">>), Lit(<<"o", "t", "t", "a", "w", "a">>),
      Lit(<<"a", "u", "s", "t", "r", "a", "l", "i", "a">>),
      Lit(<<"s", "y", "d", "n", "e", "y">>),
      Lit(<<"m", "e", "l", "b", "o", "u", "r", "n", "e">>),
      Lit(<<"n", "e", "w", " ", "z", "e", "a", "l", "a", "n", "d">>)>>

\* the alternatives of US_PATTERNS
USTerms ==
    <<Lit(<<"u", "n", "i", "t", "e", "d", " ", "s", "t", "a", "t", "e", "s">>),
      Lit(<<"u", "s", "a">>), Cat(<<Lit(<<"u", "s">>), WordB>>), Lit(<<"u", ".", "s", ".">>),
      Lit(<<"n", "e", "w", " ", "y", "o", "r", "k">>), Lit(<<"n", "y", "c">>),
      Lit(<<"s", "a", "n", " ", "f", "r", "a", "n", "c", "i", "s", "c", "o">>),
      Lit(<<"l", "o", "s", " ", "a", "n", "g", "e", "l", "e", "s">>),
      Lit(<<"c", "h", "i", "c", "a", "g", "o">>), Lit(<<"a", "u", "s", "t", "i", "n">>),
      Lit(<<"m", "i", "a", "m", "i">>), Lit(<<"b", "o", "s", "t", "o", "n">>),
      Lit(<<"s", "e", "a", "t", "t", "l", "e">>), Lit(<<"d", "e", "n", "v", "e", "r">>),
      Lit(<<"p", "o", "r", "t", "l", "a", "n", "d">>),
      Lit(<<"a", "t", "l", "a", "n", "t", "a">>), Lit(<<"d", "a", "l", "l", "a", "s">>),
      Lit(<<"h", "o", "u", "s", "t", "o", "n">>),
      Lit(<<"p", "h", "i", "l", "a", "d", "e", "l", "p", "h", "i", "a">>),
      Lit(<<"p", "h", "o", "e", "n", "i", "x">>),
      Lit(<<"m", "i", "n", "n", "e", "a", "p", "o", "l", "i", "s">>),
      Lit(<<"d", "e", "t", "r", "o", "i", "t">>),
      Lit(<<"n", "a", "s", "h", "v", "i", "l", "l", "e">>),
      Lit(<<"r", "a", "l", "e", "i", "g", "h">>),
      Lit(<<"c", "h", "a", "r", "l", "o", "t", "t", "e">>),
      Lit(<<"p", "i", "t", "t", "s", "b", "u", "r", "g", "h">>),
      Lit(<<"s", "a", "l", "t", " ", "l", "a", "k", "e">>),
      Lit(<<"s", "a", "n", " ", "d", "i", "e", "g", "o">>),
      Lit(<<"s", "a", "n", " ", "j", "o", "s", "e">>),
      Cat(<<Lit(<<"w", "a", "s", "h", "i", "n", "g", "t", "o", "n">>), Star(Ws), Lit(<<"d">>), Opt(Lit(<<".">>)), Lit(<<"c">>), Opt(Lit(<<".">>))>>),
      Lit(<<"c", "a", "l", "i", "f", "o", "r", "n", "i", "a">>),
      Lit(<<"t", "e", "x", "a", "s">>), Lit(<<"f", "l", "o", "r", "i", "d", "a">>),
      Lit(<<"g", "e", "o", "r", "g", "i", "a">>),
      Lit(<<"c", "o", "l", "o", "r", "a", "d", "o">>),
      Lit(<<"v", "i", "r", "g", "i", "n", "i", "a">>),
      Lit(<<"w", "a", "s", "h", "i", "n", "g", "t", "o", "n">>),
      Lit(<<"o", "r", "e", "g", "o", "n">>),
      Lit(<<"n", "o", "r", "t", "h", " ", "c", "a", "r", "o", "l", "i", "n", "a">>),
      Lit(<<"s", "o", "u", "t", "h", " ", "c", "a", "r", "o", "l", "i", "n", "a">>),
      Lit(<<"i", "l", "l", "i", "n", "o", "i", "s">>),
      Lit(<<"m", "a", "s", "s", "a", "c", "h", "u", "s", "e", "t", "t", "s">>),
      Lit(<<"p", "e", "n", "n", "s", "y", "l", "v", "a", "n", "i", "a">>),
      Lit(<<"o", "h", "i", "o">>), Lit(<<"m", "i", "c", "h", "i", "g", "a", "n">>),
      Lit(<<"a", "r", "i", "z", "o", "n", "a">>),
      Lit(<<"t", "e", "n", "n", "e", "s", "s", "e", "e">>),
      Lit(<<"m", "a", "r", "y", "l", "a", "n", "d">>),
      Lit(<<"m", "i", "n", "n", "e", "s", "o", "t", "a">>),
      Lit(<<"w", "i", "s", "c", "o", "n", "s", "i", "n">>),
      Lit(<<"i", "n", "d", "i", "a", "n", "a">>),
      Lit(<<"m", "i", "s", "s", "o", "u", "r", "i">>),
      Lit(<<"c", "o", "n", "n", "e", "c", "t", "i", "c", "u", "t">>),
      Lit(<<"i", "o", "w", "a">>), Lit(<<"u", "t", "a", "h">>),
      Lit(<<"n", "e", "v", "a", "d", "a">>),
      Lit(<<"n", "e", "w", " ", "j", "e", "r", "s", "e", "y">>),
      Lit(<<"n", "e", "w", " ", "h", "a", "m", "p", "s", "h", "i", "r", "e">>),
      Lit(<<"a", "l", "a", "b", "a", "m", "a">>),
      Lit(<<"k", "e", "n", "t", "u", "c", "k", "y">>),
      Lit(<<"l", "o", "u", "i", "s", "i", "a", "n", "a">>),
      Lit(<<"o", "k", "l", "a", "h", "o", "m", "a">>),
      Lit(<<"a", "r", "k", "a", "n", "s", "a", "s">>),
      Lit(<<"m", "i", "s", "s", "i", "s", "s", "i", "p", "p", "i">>),
      Lit(<<"h", "a", "w", "a", "i", "i">>), Lit(<<"i", "d", "a", "h", "o">>),
      Lit(<<"m", "o", "n", "t", "a", "n", "a">>),
      Lit(<<"n", "e", "b", "r", "a", "s", "k", "a">>),
      Lit(<<"n", "e", "w", " ", "m", "e", "x", "i", "c", "o">>),
      Lit(<<"r", "h", "o", "d", "e", " ", "i", "s", "l", "a", "n", "d">>),
      Lit(<<"v", "e", "r", "m", "o", "n", "t">>), Lit(<<"w", "y", "o", "m", "i", "n", "g">>),
      Lit(<<"m", "a", "i", "n", "e">>), Lit(<<"d", "e", "l", "a", "w", "a", "r", "e">>),
      Lit(<<"w", "e", "s", "t", " ", "v", "i", "r", "g", "i", "n", "i", "a">>),
      Lit(<<"s", "o", "u", "t", "h", " ", "d", "a", "k", "o", "t", "a">>),
      Lit(<<"n", "o", "r", "t", "h", " ", "d", "a", "k", "o", "t", "a">>),
      Lit(<<"a", "l", "a", "s", "k", "a">>), Cat(<<WordB, Lit(<<"c", "a">>), WordB>>),
      Cat(<<WordB, Lit(<<"n", "y">>), WordB>>), Cat(<<WordB, Lit(<<"n", "c">>), WordB>>),
      Cat(<<WordB, Lit(<<"f", "l">>), WordB>>), Cat(<<WordB, Lit(<<"t", "x">>), WordB>>),
      Cat(<<WordB, Lit(<<"w", "a">>), WordB>>), Cat(<<WordB, Lit(<<"c", "o">>), WordB>>),
      Cat(<<WordB, Lit(<<"i", "l">>), WordB>>), Cat(<<WordB, Lit(<<"m", "a">>), WordB>>)>>

EXCLUDED_TITLE_PATTERNS == Cat(<<WordB, Alt(ExcludedTitleTerms), WordB>>)
NON_US_PATTERNS == Cat(<<WordB, Alt(NonUSTerms), WordB>>)
US_PATTERNS == Cat(<<WordB, Alt(USTerms), WordB>>)

\* /outside\s*(of\s*)?(the\s*)?us/i
OutsideUS ==
    Cat(<<Lit(<<"o", "u", "t", "s", "i", "d", "e">>), Star(Ws),
          Opt(Cat(<<Lit(<<"o", "f">>), Star(Ws)>>)),
          Opt(Cat(<<Lit(<<"t", "h", "e">>), Star(Ws)>>)),
          Lit(<<"u", "s">>)>>)

\* /\b(remote|global|worldwide|anywhere)\b/i
RemoteGlobal ==
    Cat(<<WordB,
          Alt(<<Lit(<<"r", "e", "m", "o", "t", "e">>), Lit(<<"g", "l", "o", "b", "a", "l">>),
                Lit(<<"w", "o", "r", "l", "d", "w", "i", "d", "e">>),
                Lit(<<"a", "n", "y", "w", "h", "e", "r", "e">>)>>),
          WordB>>)

\* /\bnorth america\b/i
NorthAmerica ==
    Cat(<<WordB, Lit(<<"n", "o", "r", "t", "h", " ", "a", "m", "e", "r", "i", "c", "a">>),
          WordB>>)

\* a plausible bug: the US vocabulary is consulted before the non-US one and
\* before the 'outside US' phrase
isLocationUSOrRemoteUSFirst(location, locationType) ==
    IF Falsy(location) THEN TRUE
    ELSE LET loc == trim(location.text)
         IN  IF loc = <<>> THEN TRUE
             ELSE IF test(US_PATTERNS, loc) THEN TRUE
             ELSE IF test(OutsideUS, loc) THEN FALSE
             ELSE ~test(NON_US_PATTERNS, loc)

\* isLocationUSOrRemote(location, locationType), statement by statement
isLocationUSOrRemote(location, locationType) ==
    IF locationType = Str("REMOTE") /\ Falsy(location) THEN TRUE
    ELSE IF Falsy(location) THEN TRUE
    ELSE LET loc == trim(location.text)
         IN  IF loc = <<>> THEN TRUE
             ELSE IF test(OutsideUS, loc) THEN FALSE
             ELSE IF test(NON_US_PATTERNS, loc)
             THEN (IF test(US_PATTERNS, loc) THEN TRUE ELSE FALSE)
             ELSE IF test(US_PATTERNS, loc) THEN TRUE
             ELSE IF test(RemoteGlobal, loc) THEN TRUE
             ELSE IF test(NorthAmerica, loc) THEN TRUE
             ELSE TRUE

\* a plausible bug: the pattern without its word boundaries
isExcludedTitleSubstring(title) == test(Alt(ExcludedTitleTerms), title)

\* EXCLUDED_TITLE_PATTERNS.test(title)
isExcludedTitle(title) == test(EXCLUDED_TITLE_PATTERNS, title)

\* the pieces the location strings of SpecFilter are put together from
LocationPieces ==
    {<<"L", "o", "n", "d", "o", "n">>, <<"I", "n", "d", "i", "a", "n", "a">>,
     <<"U", ".", "S", ".">>, <<"U", "S">>, <<"N", "e", "w", " ", "Y", "o", "r", "k">>,
     <<"R", "e", "m", "o", "t", "e">>, <<"o", "u", "t", "s", "i", "d", "e">>,
     <<" ", "t", "h", "e", " ">>, <<" ">>}

\* the pieces the titles of SpecFilter are put together from
TitlePieces ==
    {<<"I", "n", "t", "e", "r", "n">>, <<"a", "l">>, <<"J", "r">>, <<".">>, <<" ">>,
     <<"e", "n", "t", "r", "y">>, <<"-">>, <<"l", "e", "v", "e", "l">>,
     <<"G", "r", "a", "d", "u", "a", "t", "e">>}

\* the concatenation of a sequence of strings
RECURSIVE Concat(_)
Concat(ss) == IF ss = <<>> THEN <<>> ELSE Head(ss) \o Concat(Tail(ss))

\* the strings made of at most n of the pieces
Composed(piecesOf, n) == {Concat(ps) : ps \in SeqsUpTo(piecesOf, n)}

\* one call of a filter: what it is given
FilterInputs ==
    {[fn |-> "isLocationUSOrRemote", location |-> l, locationType |-> lt] :
        l \in {Undefined, Null} \cup {Text(s) : s \in Composed(LocationPieces, MaxPieces)},
        lt \in {Undefined, Str("REMOTE")}}
    \cup {[fn |-> "isExcludedTitle", title |-> Text(s)] :
            s \in Composed(TitlePieces, MaxPieces)}

\* the call is made
CallFilter ==
    /\ filterOut = Null
    /\ filterOut' =
          IF filterIn.fn = "isLocationUSOrRemote"
          THEN [result |-> isLocationUSOrRemote(filterIn.location, filterIn.locationType)]
          ELSE [result |-> isExcludedTitle(filterIn.title.text)]
    /\ UNCHANGED <<scrapeVars, scoreVars, filterIn, served, scraped>>

(***************************************************************************)
(* The adapters: scrape() as a function of what the source serves.         *)
(***************************************************************************)
\* jobstash.ts
PAGE_LIMIT == 20
JobStashMaxPages == 100
MIN_SENIORITY == 2

\* web3career.ts
Web3CareerMaxPages == 10
CATEGORY_PAGES ==
    <<"business-development-jobs", "product-jobs", "growth-jobs", "devrel-jobs",
      "management-jobs">>

\* cryptojobslist.ts
CATEGORY_PATHS ==
    <<
      <<"/", "b", "u", "s", "i", "n", "e", "s", "s", "-", "d", "e", "v", "e", "l", "o", "p", "m", "e", "n", "t">>,
      <<"/", "p", "r", "o", "d", "u", "c", "t">>, <<"/", "g", "r", "o", "w", "t", "h">>,
      <<"/", "m", "a", "r", "k", "e", "t", "i", "n", "g">>,
      <<"/", "o", "p", "e", "r", "a", "t", "i", "o", "n", "s">>>>
BASE_URL ==
    <<"h", "t", "t", "p", "s", ":", "/", "/", "c", "r", "y", "p", "t", "o", "j", "o", "b", "s",
      "l", "i", "s", "t", ".", "c", "o", "m">>

DigitChars == <<"0", "1", "2", "3", "4", "5", "6", "7", "8", "9">>
DigitValue(c) == CHOOSE d \in 0..9 : DigitChars[d + 1] = c

\* the decimal digits of a natural number, as a template literal prints it
RECURSIVE Decimal(_)
Decimal(n) ==
    IF n < 10 THEN <<DigitChars[n + 1]>>
    ELSE Decimal(n \div 10) \o <<DigitChars[(n % 10) + 1]>>

RECURSIVE trimStart(_)
trimStart(s) == IF s # <<>> /\ Head(s) \in WhiteSpace THEN trimStart(Tail(s)) ELSE s

RECURSIVE DigitRun(_, _)
DigitRun(s, n) ==
    IF s = <<>> \/ Head(s) \notin Digits THEN n
    ELSE DigitRun(Tail(s), 10 * n + DigitValue(Head(s)))

\* parseInt(s, 10): leading white space, an optional sign, the digits that follow
parseInt(s) ==
    LET t == trimStart(s)
        signed == t # <<>> /\ Head(t) \in {"+", "-"}
        body == IF signed THEN Tail(t) ELSE t
    IN  IF body = <<>> \/ Head(body) \notin Digits THEN NaN
        ELSE IF signed /\ Head(t) = "-" THEN Num(0 - DigitRun(body, 0))
        ELSE Num(DigitRun(body, 0))

\* s.slice(0, n)
slice0(s, n) == SubSeq(s, 1, IF Len(s) < n THEN Len(s) ELSE n)

\* s.startsWith(p)
startsWith(s, p) == Len(s) >= Len(p) /\ SubSeq(s, 1, Len(p)) = p

\* x || undefined for a string x
OrUndefined(s) == IF s = <<>> THEN Undefined ELSE Text(s)

\* One listing as a job board shows it.  "kept" passes every filter, "intern"
\* has an excluded title, "abroad" a location outside the US, "short" a
\* two-letter title, no location and the seniority code of a junior.  A
\* "junior" listing, which only fills up full pages, has the seniority code
\* of a junior, an excluded title and a location outside the US.
ListingKinds == {"kept", "intern", "abroad", "short"}

Listing(key, kind) ==
    [key |-> key,
     title |-> CASE kind \in {"intern", "junior"} ->
                        <<"P", "M", " ", "I", "n", "t", "e", "r", "n">>
                 [] kind = "short" -> <<"P", "M">>
                 [] OTHER -> <<"S", "e", "n", "i", "o", "r", " ", "P", "M">>,
     location |-> CASE kind \in {"abroad", "junior"} -> <<"L", "o", "n", "d", "o", "n">>
                    [] kind = "short" -> <<>>
                    [] OTHER -> <<"R", "e", "m", "o", "t", "e">>,
     locationType |-> IF kind = "short" THEN Str("REMOTE") ELSE Undefined,
     seniority |-> CASE kind \in {"short", "junior"} -> Text(<<"1">>)
                     [] kind = "abroad" -> Undefined
                     [] OTHER -> Text(<<"3">>)]

Listings == {Listing("a", kind) : kind \in ListingKinds} \cup {Listing("b", "kept")}

\* the absolute address of a listing's page
Href(key) == <<"h", "t", "t", "p", "s", ":", "/", "/", "x", "/", "j", "o", "b", "s", "/", key>>

\* what the loops of an adapter accumulate; a RawJob is written with the fields
\* the filters and the deduplication read, and locationType is Undefined where
\* the adapter sets none
NoTally ==
    [allJobs |-> <<>>, seen |-> {}, skippedSeniority |-> 0, skippedTitle |-> 0,
     skippedLocation |-> 0, fetched |-> 0, trace |-> <<>>]

\* the pause between two page fetches (jobstash.ts and web3career.ts)
DELAY_MS == 500

\* scrape() resolves: the RawJobs, the counts its log lines print, and the
\* page fetches and pauses it made, in order
Resolved(acc) ==
    [jobs |-> acc.allJobs,
     counts |-> [fetched |-> acc.fetched, kept |-> Len(acc.allJobs),
                 skippedSeniority |-> acc.skippedSeniority,
                 skippedTitle |-> acc.skippedTitle,
                 skippedLocation |-> acc.skippedLocation],
     trace |-> acc.trace]

\* scrape() rejects with e
Rejected(acc, e) == [threw |-> e, trace |-> acc.trace]

\* the calls on the browser and the pauses a browser adapter goes through
Did(acc, events) == [acc EXCEPT !.trace = @ \o events]

\* the response to a page beyond the ones the source has
NoPage == [status |-> "ok", data |-> <<>>, next |-> FALSE]

(***************************************************************************)
(* JobStashAdapter.scrape                                                  *)
(***************************************************************************)
\* a listing as the JobStash API returns it: listing "a" carries a shortUUID,
\* the others only an id
JobStashJob(l) ==
    [shortUUID |-> IF l.key = "a" THEN Text(<<l.key>>) ELSE Undefined,
     id |-> IF l.key = "a" THEN Undefined ELSE Text(<<l.key>>),
     title |-> Text(l.title), url |-> Text(Href(l.key)), organization |-> Undefined,
     location |-> Text(l.location), locationType |-> l.locationType,
     seniority |-> l.seniority, classification |-> Str("product")]

\* a page of fewer than PAGE_LIMIT listings filled up with junior positions
Pad(data) == data \o [i \in 1..(PAGE_LIMIT - Len(data)) |-> JobStashJob(Listing("z", "junior"))]

\* a plausible bug: the location filter is left out
jobstashVerdictNoLocation(job) ==
    LET seniority == IF Falsy(job.seniority) THEN Null ELSE parseInt(job.seniority.text)
    IN  IF seniority # Null /\ "num" \in DOMAIN seniority /\ seniority.num < MIN_SENIORITY
        THEN "seniority"
        ELSE IF isExcludedTitle(job.title.text) THEN "title"
        ELSE "kept"

\* a plausible bug: the title filter comes before the seniority code
jobstashVerdictTitleFirst(job) ==
    LET seniority == IF Falsy(job.seniority) THEN Null ELSE parseInt(job.seniority.text)
    IN  IF isExcludedTitle(job.title.text) THEN "title"
        ELSE IF seniority # Null /\ "num" \in DOMAIN seniority
                /\ seniority.num < MIN_SENIORITY
        THEN "seniority"
        ELSE IF ~isLocationUSOrRemote(job.location, job.locationType) THEN "location"
        ELSE "kept"

\* the filters of the loop body, in the order the code applies them
jobstashVerdict(job) ==
    LET seniority == IF Falsy(job.seniority) THEN Null ELSE parseInt(job.seniority.text)
    IN  IF seniority # Null /\ "num" \in DOMAIN seniority /\ seniority.num < MIN_SENIORITY
        THEN "seniority"
        ELSE IF isExcludedTitle(job.title.text) THEN "title"
        ELSE IF ~isLocationUSOrRemote(job.location, job.locationType) THEN "location"
        ELSE "kept"

\* the RawJob pushed for a job that passed
jobstashRawJob(job) ==
    LET sourceId ==
            IF ~Falsy(job.shortUUID) THEN job.shortUUID
            ELSE IF ~Falsy(job.id) THEN job.id
            ELSE Text(job.title.text \o <<"-", "u", "n", "d", "e", "f", "i", "n", "e", "d">>)
    IN  [sourceId |-> sourceId, url |-> job.url, title |-> job.title,
         location |-> job.location, locationType |-> job.locationType,
         seniority |-> job.seniority, category |-> job.classification]

\* one pass of `for (const job of jobs)`
jobstashJob(acc, job) ==
    LET verdict == jobstashVerdict(job)
    IN  CASE verdict = "seniority" -> [acc EXCEPT !.skippedSeniority = @ + 1]
          [] verdict = "title" -> [acc EXCEPT !.skippedTitle = @ + 1]
          [] verdict = "location" -> [acc EXCEPT !.skippedLocation = @ + 1]
          [] OTHER -> [acc EXCEPT !.allJobs = Append(@, jobstashRawJob(job))]

RECURSIVE jobstashJobs(_, _)
jobstashJobs(acc, data) ==
    IF data = <<>> THEN acc ELSE jobstashJobs(jobstashJob(acc, Head(data)), Tail(data))

\* a plausible bug: a short page does not end the loop
jobstashPageIgnoresShortPage(pages, rest, page, acc) ==
    IF page > JobStashMaxPages THEN Resolved(acc)
    ELSE LET response == IF page <= Len(pages) THEN pages[page] ELSE rest
             asked == [acc EXCEPT !.trace = Append(@, [op |-> "fetch", category |-> 0,
                                                        page |-> page])]
         IN  IF response.status = "reject" THEN Rejected(asked, ErrorObj("fetch failed"))
             ELSE IF response.status # "ok" THEN Resolved(asked)
             ELSE IF Len(response.data) = 0 THEN Resolved(asked)
             ELSE LET kept == jobstashJobs([asked EXCEPT !.fetched = @ + Len(response.data)],
                                           response.data)
                  IN  [page |-> page + 1,
                       acc |-> [kept EXCEPT !.trace = Append(@, [op |-> "delay",
                                                                 ms |-> DELAY_MS])]]

\* one pass of the page loop, from its test to the end of its pause: scrape()
\* settles, or goes on to the next pass with what it has accumulated;
\* pages[k] is the response to the fetch of page k and `rest` the response to
\* every page after the last of them
jobstashPage(pages, rest, page, acc) ==
    IF page > JobStashMaxPages THEN Resolved(acc)
    ELSE LET response == IF page <= Len(pages) THEN pages[page] ELSE rest
             asked == [acc EXCEPT !.trace = Append(@, [op |-> "fetch", category |-> 0,
                                                        page |-> page])]
         IN  IF response.status = "reject" THEN Rejected(asked, ErrorObj("fetch failed"))
             ELSE IF response.status # "ok" THEN Resolved(asked)
             ELSE IF Len(response.data) = 0 THEN Resolved(asked)
             ELSE LET kept == jobstashJobs([asked EXCEPT !.fetched = @ + Len(response.data)],
                                           response.data)
                  IN  IF Len(response.data) < PAGE_LIMIT THEN Resolved(kept)
                      ELSE [page |-> page + 1,
                            acc |-> [kept EXCEPT !.trace = Append(@, [op |-> "delay",
                                                                      ms |-> DELAY_MS])]]

\* scrape() up to the end of the first pass
jobstashScrape(pages, rest) == jobstashPage(pages, rest, 1, NoTally)

(***************************************************************************)
(* Web3CareerAdapter.scrape                                                *)
(***************************************************************************)
\* a listing as parseRows returns it from the page's table
Web3Row(l) ==
    [id |-> IF l.key = "a" THEN <<"1">> ELSE <<"2">>, title |-> l.title,
     location |-> l.location, url |-> Href(l.key)]

web3careerVerdict(row) ==
    IF isExcludedTitle(row.title) THEN "title"
    ELSE IF ~isLocationUSOrRemote(Text(row.location), Undefined) THEN "location"
    ELSE "kept"

\* one pass of `for (const row of rows)`
web3careerRow(acc, row, category) ==
    IF row.id \in acc.seen THEN acc
    ELSE LET seen == [acc EXCEPT !.seen = @ \cup {row.id}]
             verdict == web3careerVerdict(row)
         IN  CASE verdict = "title" -> [seen EXCEPT !.skippedTitle = @ + 1]
               [] verdict = "location" -> [seen EXCEPT !.skippedLocation = @ + 1]
               [] OTHER ->
                    [seen EXCEPT !.allJobs =
                        Append(@, [sourceId |-> Text(row.id), url |-> OrUndefined(row.url),
                                   title |-> Text(row.title),
                                   location |-> OrUndefined(row.location),
                                   locationType |-> Undefined,
                                   category |-> Str(category)])]

RECURSIVE web3careerRows(_, _, _)
web3careerRows(acc, rows, category) ==
    IF rows = <<>> THEN acc
    ELSE web3careerRows(web3careerRow(acc, Head(rows), category), Tail(rows), category)

\* the two loops from page `page` of category number c on; site[c] is the
\* sequence of responses the category's pages give, `next` whether the page
\* holds a link to the page after it
RECURSIVE web3careerPage(_, _, _, _)
web3careerPage(site, c, page, acc) ==
    IF c > Len(CATEGORY_PAGES) THEN Resolved(acc)
    ELSE IF page > Web3CareerMaxPages THEN web3careerPage(site, c + 1, 1, acc)
    ELSE LET response == IF page <= Len(site[c]) THEN site[c][page] ELSE NoPage
             asked == [acc EXCEPT !.trace = Append(@, [op |-> "fetch", category |-> c,
                                                        page |-> page])]
         IN  IF response.status = "reject" THEN Rejected(asked, ErrorObj("fetch failed"))
             ELSE IF response.status # "ok" THEN web3careerPage(site, c + 1, 1, asked)
             ELSE IF Len(response.data) = 0 THEN web3careerPage(site, c + 1, 1, asked)
             ELSE LET kept == web3careerRows([asked EXCEPT !.fetched = @ + Len(response.data)],
                                             response.data, CATEGORY_PAGES[c])
                  IN  IF ~response.next THEN web3careerPage(site, c + 1, 1, kept)
                      ELSE web3careerPage(site, c, page + 1,
                              [kept EXCEPT !.trace = Append(@, [op |-> "delay",
                                                                ms |-> DELAY_MS])])

web3careerScrape(site) == web3careerPage(site, 1, 1, NoTally)

(***************************************************************************)
(* The browser adapters: CryptoJobsListAdapter.scrape, SafaryAdapter.scrape *)
(***************************************************************************)
\* a listing as an anchor of the rendered page: its address and the lines of
\* its text, the title first
Anchor(l) ==
    [href |-> Href(l.key),
     lines |-> IF l.location = <<>> THEN <<l.title>> ELSE <<l.title, l.location>>]

\* el.innerText of an anchor
RECURSIVE innerText(_)
innerText(lines) ==
    IF lines = <<>> THEN <<>>
    ELSE IF Len(lines) = 1 THEN Head(lines)
    ELSE Head(lines) \o <<"\n">> \o innerText(Tail(lines))

\* lines.find(l => re.test(l)) || ''
RECURSIVE find(_, _)
find(lines, re) ==
    IF lines = <<>> THEN <<>>
    ELSE IF test(re, Head(lines)) THEN Head(lines)
    ELSE find(Tail(lines), re)

\* categoryPath.replace('/', '')
RECURSIVE replaceSlash(_)
replaceSlash(s) ==
    IF s = <<>> THEN <<>>
    ELSE IF Head(s) = "/" THEN Tail(s)
    ELSE <<Head(s)>> \o replaceSlash(Tail(s))

\* the line the in-page extraction of CryptoJobsList takes for the location
CryptoJobsListLocationLine ==
    Alt(<<Lit(<<"r", "e", "m", "o", "t", "e">>), Lit(<<"o", "n", "s", "i", "t", "e">>),
          Lit(<<"h", "y", "b", "r", "i", "d">>), Lit(<<"u", "s", "a">>), Lit(<<"u", "s">>),
          Lit(<<"n", "e", "w", " ", "y", "o", "r", "k">>),
          Lit(<<"s", "a", "n", " ", "f", "r", "a", "n", "c", "i", "s", "c", "o">>),
          Lit(<<"l", "o", "n", "d", "o", "n">>), Lit(<<"b", "e", "r", "l", "i", "n">>),
          Lit(<<"s", "i", "n", "g", "a", "p", "o", "r", "e">>),
          Lit(<<"g", "l", "o", "b", "a", "l">>),
          Lit(<<"w", "o", "r", "l", "d", "w", "i", "d", "e">>)>>)

\* the in-page extraction of CryptoJobsList over the anchors from position k on
RECURSIVE cryptojobslistExtract(_, _, _, _)
cryptojobslistExtract(links, k, seen, results) ==
    IF k > Len(links) THEN results
    ELSE LET link == links[k]
             text == trim(innerText(link.lines))
         IN  IF link.href \in seen THEN cryptojobslistExtract(links, k + 1, seen, results)
             ELSE IF Len(text) < 5
             THEN cryptojobslistExtract(links, k + 1, seen \cup {link.href}, results)
             ELSE cryptojobslistExtract(links, k + 1, seen \cup {link.href},
                    Append(results,
                           [title |-> link.lines[1],
                            location |-> find(link.lines, CryptoJobsListLocationLine),
                            url |-> IF startsWith(link.href, <<"h", "t", "t", "p">>)
                                    THEN link.href ELSE BASE_URL \o link.href]))

\* one pass of `for (const job of jobs)`
cryptojobslistJob(acc, job, c) ==
    IF job.title = <<>> \/ Len(job.title) <= 2 THEN acc
    ELSE IF job.url \in acc.seen THEN acc
    ELSE LET seen == [acc EXCEPT !.seen = @ \cup {job.url}]
         IN  IF isExcludedTitle(job.title) THEN [seen EXCEPT !.skippedTitle = @ + 1]
             ELSE IF ~isLocationUSOrRemote(Text(job.location), Undefined)
             THEN [seen EXCEPT !.skippedLocation = @ + 1]
             ELSE [seen EXCEPT !.allJobs =
                     Append(@, [sourceId |-> IF job.url # <<>> THEN Text(job.url)
                                             ELSE Text(<<"c", "j", "l", "-">>
                                                       \o slice0(job.title, 30)),
                                url |-> OrUndefined(job.url), title |-> Text(job.title),
                                location |-> OrUndefined(job.location),
                                locationType |-> Undefined,
                                category |-> Text(replaceSlash(CATEGORY_PATHS[c]))])]

RECURSIVE cryptojobslistJobs(_, _, _)
cryptojobslistJobs(acc, extracted, c) ==
    IF extracted = <<>> THEN acc
    ELSE cryptojobslistJobs(cryptojobslistJob(acc, Head(extracted), c), Tail(extracted), c)

\* a plausible bug: an error in one category is not caught
RECURSIVE cryptojobslistCategoryNoCatch(_, _, _)
cryptojobslistCategoryNoCatch(site, c, acc) ==
    IF c > Len(CATEGORY_PATHS) THEN Resolved(Did(acc, <<[op |-> "closeBrowser"]>>))
    ELSE LET fault == site[c].fault
             opened == Did(acc, <<[op |-> "newPage", category |-> c]>>)
             closed == <<[op |-> "closePage", category |-> c]>>
             pause == <<[op |-> "delay", ms |-> 3000]>>
             wait == <<[op |-> "delay", ms |-> 5000]>>
             kept == cryptojobslistJobs(IF fault = "late" THEN Did(opened, wait) ELSE opened,
                                        cryptojobslistExtract(site[c].links, 1, {}, <<>>), c)
         IN  CASE fault = "newPage" ->
                    Rejected(Did(acc, <<[op |-> "closeBrowser"]>>),
                             ErrorObj("browserContext.newPage: Target closed"))
               [] fault \in {"goto", "extract"} ->
                    Rejected(Did(opened, closed \o <<[op |-> "closeBrowser"]>>),
                             ErrorObj("page.goto: Timeout 45000ms exceeded"))
               [] fault = "antibot" ->
                    cryptojobslistCategoryNoCatch(site, c + 1,
                                                  Did(opened, wait \o closed \o closed))
               [] OTHER ->
                    cryptojobslistCategoryNoCatch(site, c + 1, Did(kept, closed \o pause))

\* the category loop from category number c on, up to the end of scrape().
\* site[c].fault says what goes wrong in category c: "newPage" - the page
\* cannot be created; "goto" - the navigation throws; "antibot" - no job link
\* appears, also not after the extra wait; "late" - the job links appear
\* only after the extra wait; "extract" - page.evaluate throws; "none".
RECURSIVE cryptojobslistCategory(_, _, _)
cryptojobslistCategory(site, c, acc) ==
    IF c > Len(CATEGORY_PATHS) THEN Resolved(Did(acc, <<[op |-> "closeBrowser"]>>))
    ELSE LET fault == site[c].fault
             opened == Did(acc, <<[op |-> "newPage", category |-> c]>>)
             closed == <<[op |-> "closePage", category |-> c]>>
             pause == <<[op |-> "delay", ms |-> 3000]>>
             wait == <<[op |-> "delay", ms |-> 5000]>>
             kept == cryptojobslistJobs(IF fault = "late" THEN Did(opened, wait) ELSE opened,
                                        cryptojobslistExtract(site[c].links, 1, {}, <<>>), c)
         IN  CASE fault = "newPage" ->
                    Rejected(Did(acc, <<[op |-> "closeBrowser"]>>),
                             ErrorObj("browserContext.newPage: Target closed"))
               [] fault \in {"goto", "extract"} ->
                    cryptojobslistCategory(site, c + 1, Did(opened, closed \o pause))
               [] fault = "antibot" ->
                    cryptojobslistCategory(site, c + 1, Did(opened, wait \o closed \o closed))
               [] OTHER -> cryptojobslistCategory(site, c + 1, Did(kept, closed \o pause))

\* scrape(); `setup` says which of the steps before the category loop fails:
\* "import" - playwright is not installed; "launch" - chromium.launch();
\* "context" - browser.newContext(); "ok" - none
cryptojobslistScrape(setup, site) ==
    CASE setup = "import" -> Resolved(NoTally)
      [] setup = "launch" -> Rejected(NoTally, ErrorObj("browserType.launch: failed"))
      [] setup = "context" ->
           Rejected(Did(NoTally, <<[op |-> "launch"]>>),
                    ErrorObj("browser.newContext: Target closed"))
      [] OTHER ->
           cryptojobslistCategory(site, 1,
                                  Did(NoTally, <<[op |-> "launch"], [op |-> "newContext"]>>))

\* a listing as a row of a table: the cells, and the address of the row's
\* first anchor where it has one
TableRow(l, linked) ==
    [cells |-> <<l.title, <<"A", "c", "m", "e">>, l.location>>,
     href |-> IF linked THEN Href(l.key) ELSE <<>>]

\* the line the in-page extraction of Safary takes for the location
SafaryLocationLine ==
    Alt(<<Lit(<<"r", "e", "m", "o", "t", "e">>), Lit(<<"o", "n", "s", "i", "t", "e">>),
          Lit(<<"h", "y", "b", "r", "i", "d">>), Lit(<<"c", "i", "t", "y">>),
          Lit(<<"s", "t", "a", "t", "e">>)>>)

\* Pattern 1 of the in-page extraction of Safary: the anchors
RECURSIVE safaryLinks(_, _, _, _)
safaryLinks(links, k, seen, results) ==
    IF k > Len(links) THEN results
    ELSE LET link == links[k]
             text == trim(innerText(link.lines))
         IN  IF link.href \in seen THEN safaryLinks(links, k + 1, seen, results)
             ELSE IF Len(text) < 5
             THEN safaryLinks(links, k + 1, seen \cup {link.href}, results)
             ELSE safaryLinks(links, k + 1, seen \cup {link.href},
                    Append(results,
                           [title |-> link.lines[1],
                            location |-> find(link.lines, SafaryLocationLine),
                            url |-> link.href]))

\* Pattern 2: the table rows
RECURSIVE safaryRows(_, _)
safaryRows(rows, results) ==
    IF rows = <<>> THEN results
    ELSE LET row == Head(rows)
             title == IF Len(row.cells) >= 1 THEN trim(row.cells[1]) ELSE <<>>
         IN  IF Len(row.cells) < 2 THEN safaryRows(Tail(rows), results)
             ELSE IF title = <<>> \/ Len(title) < 3 THEN safaryRows(Tail(rows), results)
             ELSE safaryRows(Tail(rows),
                    Append(results,
                           [title |-> title,
                            location |-> IF Len(row.cells) >= 3 THEN trim(row.cells[3])
                                         ELSE <<>>,
                            url |-> row.href]))

\* the in-page extraction: the rows are read only when no anchor gave a result
safaryExtract(links, rows) ==
    LET results == safaryLinks(links, 1, {}, <<>>)
    IN  IF Len(results) = 0 THEN safaryRows(rows, <<>>) ELSE results

\* `for (const [i, j] of jobs.entries())` from index i on
RECURSIVE safaryJobs(_, _, _)
safaryJobs(acc, extracted, i) ==
    IF i >= Len(extracted) THEN acc
    ELSE LET j == extracted[i + 1]
         IN  IF j.title = <<>> \/ Len(j.title) <= 2 THEN safaryJobs(acc, extracted, i + 1)
             ELSE IF isExcludedTitle(j.title)
             THEN safaryJobs([acc EXCEPT !.skippedTitle = @ + 1], extracted, i + 1)
             ELSE IF ~isLocationUSOrRemote(Text(j.location), Undefined)
             THEN safaryJobs([acc EXCEPT !.skippedLocation = @ + 1], extracted, i + 1)
             ELSE safaryJobs(
                    [acc EXCEPT !.allJobs =
                        Append(@, [sourceId |-> IF j.url # <<>> THEN Text(j.url)
                                                ELSE Text(<<"s", "a", "f", "a", "r", "y", "-">>
                                                          \o Decimal(i) \o <<"-">>
                                                          \o slice0(j.title, 30)),
                                   url |-> OrUndefined(j.url), title |-> Text(j.title),
                                   location |-> OrUndefined(j.location),
                                   locationType |-> Undefined])],
                    extracted, i + 1)

\* scrape(); `setup` says which step fails: "import" - playwright is not
\* installed; "launch" - chromium.launch(); "context" - browser.newContext();
\* "newPage" - context.newPage(); "goto" - page.goto(); "extract" -
\* page.evaluate(); "ok" - none
safaryScrape(setup, links, rows) ==
    LET launched == Did(NoTally, <<[op |-> "launch"]>>)
        inContext == Did(launched, <<[op |-> "newContext"]>>)
        onPage == Did(inContext, <<[op |-> "newPage", category |-> 0]>>)
        close == <<[op |-> "closeBrowser"]>>
    IN  CASE setup = "import" -> Resolved(NoTally)
          [] setup = "launch" -> Rejected(NoTally, ErrorObj("browserType.launch: failed"))
          [] setup = "context" ->
               Rejected(launched, ErrorObj("browser.newContext: Target closed"))
          [] setup = "newPage" ->
               Rejected(inContext, ErrorObj("browserContext.newPage: Target closed"))
          [] setup = "goto" ->
               Rejected(Did(onPage, close), ErrorObj("page.goto: Timeout 30000ms exceeded"))
          [] setup = "extract" ->
               Rejected(Did(onPage, close), ErrorObj("page.evaluate: Target closed"))
          [] OTHER ->
               Resolved(Did(safaryJobs(onPage, safaryExtract(links, rows), 0), close))

(***************************************************************************)
(* What a source serves during one scrape(), and the call.                 *)
(***************************************************************************)
\* the listings a source shows during one run, in the order it shows them,
\* cut into a first and a second batch
Shown ==
    UNION {{[first |-> SubSeq(ls, 1, cut), second |-> SubSeq(ls, cut + 1, Len(ls))] :
                cut \in 0..Len(ls)} : ls \in SeqsUpTo(Listings, MaxListings)}

\* how the two fetches of an HTTP adapter are answered: with a page, with a
\* status that is not OK, or not at all
Faults == {<<"ok", "ok">>, <<"status", "ok">>, <<"ok", "status">>, <<"ok", "reject">>}

\* JobStash: the batches are pages 1 and 2; page 1 is a full page or a short one
JobStashServed ==
    {[adapter |-> "jobstash", shown |-> sh,
      pages |-> <<[status |-> f[1],
                   data |-> IF full
                            THEN Pad([i \in 1..Len(sh.first) |-> JobStashJob(sh.first[i])])
                            ELSE [i \in 1..Len(sh.first) |-> JobStashJob(sh.first[i])]],
                  [status |-> f[2],
                   data |-> [i \in 1..Len(sh.second) |-> JobStashJob(sh.second[i])]]>>,
      rest |-> NoPage] :
        sh \in Shown, full \in BOOLEAN, f \in Faults}
    \cup \* a source that never runs out of full pages
       {[adapter |-> "jobstash", shown |-> sh,
         pages |-> <<[status |-> "ok",
                      data |-> Pad([i \in 1..Len(sh.first) |-> JobStashJob(sh.first[i])])]>>,
         rest |-> [status |-> "ok", data |-> Pad(<<>>)]] :
           sh \in {x \in Shown : x.second = <<>>}}

\* Web3Career: the batches are pages 1 and 2 of the first category, page 1
\* with or without a link to page 2, or page 1 of the first two categories
Web3CareerLayouts == {"pages", "lastpage", "categories"}

Web3CareerServed ==
    {[adapter |-> "web3career", shown |-> sh,
      site |-> [c \in DOMAIN CATEGORY_PAGES |->
                  LET first == [status |-> f[1], data |-> [i \in 1..Len(sh.first) |-> Web3Row(sh.first[i])],
                                next |-> layout = "pages"]
                      second == [status |-> f[2], data |-> [i \in 1..Len(sh.second) |-> Web3Row(sh.second[i])],
                                 next |-> FALSE]
                  IN  IF layout = "categories"
                      THEN (IF c = 1 THEN <<first>> ELSE IF c = 2 THEN <<second>> ELSE <<>>)
                      ELSE (IF c = 1 THEN <<first, second>> ELSE <<>>)]] :
        sh \in Shown, layout \in Web3CareerLayouts, f \in Faults}

\* CryptoJobsList: the batches are the anchors of the first two categories;
\* a step before the category loop may fail, or one thing go wrong in one of
\* the two categories
CryptoJobsListFaults ==
    {<<"ok", 0, "none">>, <<"import", 0, "none">>, <<"launch", 0, "none">>,
     <<"context", 0, "none">>, <<"ok", 1, "goto">>, <<"ok", 1, "antibot">>,
     <<"ok", 2, "goto">>, <<"ok", 2, "extract">>, <<"ok", 2, "late">>,
     <<"ok", 2, "newPage">>}

CryptoJobsListServed ==
    {[adapter |-> "cryptojobslist", shown |-> sh, setup |-> v[1],
      site |-> [c \in DOMAIN CATEGORY_PATHS |->
                  [fault |-> IF v[2] = c THEN v[3] ELSE "none",
                   links |-> IF c = 1 THEN [i \in 1..Len(sh.first) |-> Anchor(sh.first[i])]
                             ELSE IF c = 2
                             THEN [i \in 1..Len(sh.second) |-> Anchor(sh.second[i])]
                             ELSE <<>>]]] :
        sh \in Shown, v \in CryptoJobsListFaults}

\* Safary: the first batch is the anchors, the second the table rows, with
\* or without an anchor of their own
SafaryServed ==
    {[adapter |-> "safary", shown |-> sh, setup |-> v[1],
      links |-> [i \in 1..Len(sh.first) |-> Anchor(sh.first[i])],
      rows |-> [i \in 1..Len(sh.second) |-> TableRow(sh.second[i], v[2])]] :
        sh \in Shown,
        v \in {<<"ok", TRUE>>, <<"ok", FALSE>>, <<"import", TRUE>>, <<"launch", TRUE>>,
               <<"context", TRUE>>, <<"newPage", TRUE>>, <<"goto", TRUE>>,
               <<"extract", TRUE>>}}

AdapterInputs == JobStashServed \cup Web3CareerServed \cup CryptoJobsListServed \cup SafaryServed

\* adapter.scrape() from its call to its settling
CallScrape ==
    /\ served # Null /\ scraped = Null
    /\ scraped' =
          CASE served.adapter = "jobstash" -> jobstashScrape(served.pages, served.rest)
            [] served.adapter = "web3career" -> web3careerScrape(served.site)
            [] served.adapter = "cryptojobslist" ->
                 cryptojobslistScrape(served.setup, served.site)
            [] served.adapter = "safary" ->
                 safaryScrape(served.setup, served.links, served.rows)
    /\ UNCHANGED <<scrapeVars, scoreVars, filterIn, filterOut, served>>

\* JobStashAdapter.scrape() makes the next pass of its page loop
JobStashNextPage ==
    /\ served # Null /\ scraped # Null /\ "acc" \in DOMAIN scraped
    /\ scraped' = jobstashPage(served.pages, served.rest, scraped.page, scraped.acc)
    /\ UNCHANGED <<scrapeVars, scoreVars, filterIn, filterOut, served>>

Idle ==
    /\ scrape_runs = <<>>
    /\ call = [p \in Calls |-> "none"]
    /\ rs = [p \in Calls |-> NoFrame]
    /\ ra = [p \in Calls |-> [pc |-> "none", idx |-> 0, results |-> NoResults]]
    /\ closeCount = <<>>
    /\ runOwner = <<>>
    /\ settled = [p \in Calls |-> Pending]
    /\ upsertLog = <<>>
    /\ job_scores = {}
    /\ sc = [q \in ScoreCalls |-> NoScoreFrame]
    /\ scoreLog = [q \in ScoreCalls |-> <<>>]
    /\ lastTry = [q \in ScoreCalls |-> Null]
    /\ lastWrite = [id \in JobIds |-> Null]
    /\ filterIn = Null /\ filterOut = Null
    /\ served = Null /\ scraped = Null

(***************************************************************************)
(* Spec: concurrent single-source scrapes on an empty database.            *)
(***************************************************************************)
Init ==
    /\ Idle
    /\ jobs = {} /\ uuidCount = 0 /\ upsertsLeft = MaxUpserts
    /\ apiKey = Str("sk-test") /\ judgeLeft = 0

Next ==
    \E p \in Calls :
        \/ \E source \in SourceNames : CallRunScraper(p, source)
        \/ \E rawJobs \in SeqsUpTo(RawJobs, MaxBatch) : ScrapeResolves(p, rawJobs)
        \/ \E e \in ScrapeErrors : ScrapeRejects(p, e)

Spec == Init /\ [][Next]_vars

(***************************************************************************)
(* SpecAll: invocation 1 is one runAllScrapers pass, invocation 2 a         *)
(* single-source scrape running concurrently with it.                      *)
(***************************************************************************)
InitAll ==
    /\ Idle
    /\ jobs = {} /\ uuidCount = 0 /\ upsertsLeft = MaxUpsertsAll
    /\ apiKey = Str("sk-test") /\ judgeLeft = 0

NextAll ==
    \E p \in {1, 2} :
        \/ p = 1 /\ CallRunAllScrapers(p)
        \/ p = 2 /\ \E source \in SourceNames : CallRunScraper(p, source)
        \/ \E rawJobs \in SeqsUpTo(RawJobs, MaxBatch) : ScrapeResolves(p, rawJobs)
        \/ \E e \in ScrapeErrors : ScrapeRejects(p, e)
        \/ RunAllResume(p)

SpecAll == InitAll /\ [][NextAll]_vars

(***************************************************************************)
(* SpecScore: scoreUnscored invocations on a database some scrape filled.  *)
(***************************************************************************)
\* the RawJobs an earlier jobstash scrape returned
StoredBatch == <<RawJobOf("a", 1), RawJobOf("b", 2), RawJobOf("c", 1)>>

\* the jobs table after runScraper upserted the first n of them
StoreOf(n) == upsertLoop("jobstash", SubSeq(StoredBatch, 1, n), 1, {}, 0, 0, <<>>).jobs

InitScore ==
    /\ Idle
    /\ \E n \in 0..MaxStored : jobs = StoreOf(n) /\ uuidCount = n
    /\ upsertsLeft = 0
    /\ apiKey \in {Undefined, Str(""), Str("sk-test")}
    /\ judgeLeft = MaxJudgeCalls

\* the settlements SpecScore draws from: the rejected call and every
\* response that passes validation (SpecRetry draws from all of them)
ScoreResponses == {r \in JudgeResponses : "rejected" \in DOMAIN r \/ attempt(r).ok}

\* the first call passes any limit on; the call that joins it is the request
\* without a limit, which takes the default
LimitsOf(q) == IF q = 1 THEN Limits ELSE {DefaultLimit}

NextScore ==
    \E q \in ScoreCalls :
        \/ \E limit \in LimitsOf(q) : CallScoreUnscored(q, limit)
        \/ \E resp \in ScoreResponses : JudgeResponds(q, resp)
        \/ BackoffElapsed(q)

SpecScore == InitScore /\ [][NextScore]_vars

(***************************************************************************)
(* SpecRetry: one scoreUnscored invocation, every kind of judge response.  *)
(***************************************************************************)
InitRetry ==
    /\ Idle
    /\ \E n \in 0..MaxStored : jobs = StoreOf(n) /\ uuidCount = n
    /\ upsertsLeft = 0
    /\ apiKey = Str("sk-test")
    /\ judgeLeft = MaxRetryCalls

NextRetry ==
    \/ \E limit \in Limits : CallScoreUnscored(1, limit)
    \/ \E resp \in JudgeResponses : JudgeResponds(1, resp)
    \/ BackoffElapsed(1)

SpecRetry == InitRetry /\ [][NextRetry]_vars

(***************************************************************************)
(* SpecFilter: one call of isLocationUSOrRemote or of the title pattern.   *)
(***************************************************************************)
InitFilter ==
    /\ scrape_runs = <<>>
    /\ call = [p \in Calls |-> "none"]
    /\ rs = [p \in Calls |-> NoFrame]
    /\ ra = [p \in Calls |-> [pc |-> "none", idx |-> 0, results |-> NoResults]]
    /\ closeCount = <<>> /\ runOwner = <<>>
    /\ settled = [p \in Calls |-> Pending]
    /\ upsertLog = <<>> /\ job_scores = {}
    /\ sc = [q \in ScoreCalls |-> NoScoreFrame]
    /\ scoreLog = [q \in ScoreCalls |-> <<>>]
    /\ lastTry = [q \in ScoreCalls |-> Null]
    /\ lastWrite = [id \in JobIds |-> Null]
    /\ jobs = {} /\ uuidCount = 0 /\ upsertsLeft = 0
    /\ apiKey = Undefined /\ judgeLeft = 0
    /\ filterIn \in FilterInputs /\ filterOut = Null
    /\ served = Null /\ scraped = Null

NextFilter == CallFilter

SpecFilter == InitFilter /\ [][NextFilter]_vars

(***************************************************************************)
(* SpecAdapter: one call of one adapter's scrape().                        *)
(***************************************************************************)
InitAdapter ==
    /\ scrape_runs = <<>>
    /\ call = [p \in Calls |-> "none"]
    /\ rs = [p \in Calls |-> NoFrame]
    /\ ra = [p \in Calls |-> [pc |-> "none", idx |-> 0, results |-> NoResults]]
    /\ closeCount = <<>> /\ runOwner = <<>>
    /\ settled = [p \in Calls |-> Pending]
    /\ upsertLog = <<>> /\ job_scores = {}
    /\ sc = [q \in ScoreCalls |-> NoScoreFrame]
    /\ scoreLog = [q \in ScoreCalls |-> <<>>]
    /\ lastTry = [q \in ScoreCalls |-> Null]
    /\ lastWrite = [id \in JobIds |-> Null]
    /\ jobs = {} /\ uuidCount = 0 /\ upsertsLeft = 0
    /\ apiKey = Undefined /\ judgeLeft = 0
    /\ filterIn = Null /\ filterOut = Null
    /\ served \in AdapterInputs /\ scraped = Null

NextAdapter == CallScrape \/ JobStashNextPage

SpecAdapter == InitAdapter /\ [][NextAdapter]_vars

(***************************************************************************)
(* SpecRescrape: scrapes on a database that already holds jobs, some of    *)
(* them scored.                                                            *)
(***************************************************************************)
\* what the judge answered for the jobs scored earlier
StoredResult == JudgeObject(Dec(725), Dec(804), Str("fits"))

\* job_scores after scoreJob persisted a score for each job id in ids
RECURSIVE ScoresOf(_)
ScoresOf(ids) ==
    IF ids = {} THEN {}
    ELSE LET id == CHOOSE x \in ids : TRUE
         IN  scoreJobPersist(ScoresOf(ids \ {id}), id, StoredResult).scores

InitRescrape ==
    /\ scrape_runs = <<>>
    /\ call = [p \in Calls |-> "none"]
    /\ rs = [p \in Calls |-> NoFrame]
    /\ ra = [p \in Calls |-> [pc |-> "none", idx |-> 0, results |-> NoResults]]
    /\ closeCount = <<>> /\ runOwner = <<>>
    /\ settled = [p \in Calls |-> Pending]
    /\ upsertLog = <<>>
    /\ jobs = StoreOf(MaxStored) /\ uuidCount = MaxStored
    /\ \E ids \in SUBSET JobIds : ids # {} /\ job_scores = ScoresOf(ids)
    /\ upsertsLeft = MaxUpserts
    /\ sc = [q \in ScoreCalls |-> NoScoreFrame]
    /\ scoreLog = [q \in ScoreCalls |-> <<>>]
    /\ lastTry = [q \in ScoreCalls |-> Null]
    /\ lastWrite = [id \in JobIds |-> Null]
    /\ apiKey = Str("sk-test") /\ judgeLeft = 0
    /\ filterIn = Null /\ filterOut = Null
    /\ served = Null /\ scraped = Null

\* the source the stored jobs came from, and another registered one
RescrapeSources == {"jobstash", "safary"}

NextRescrape ==
    \E p \in Calls :
        \/ \E source \in RescrapeSources : CallRunScraper(p, source)
        \/ \E rawJobs \in SeqsUpTo(RawJobs, MaxBatch) : ScrapeResolves(p, rawJobs)
        \/ ScrapeRejects(p, ErrorObj("fetch failed"))

SpecRescrape == InitRescrape /\ [][NextRescrape]_vars

(***************************************************************************)
(* SpecRepeat: scoreUnscored(limit) is called again and again with the     *)
(* same limit >= 1, each call after the one before it returned.  The judge *)
(* fails every call for one stored job and answers every other validly.    *)
(***************************************************************************)
\* the job whose judge call always fails
AlwaysFails == {uuidv4(1)}

\* how a create() call for this job can settle: for the failing job every
\* way the attempt throws, for the others the answer the prompt asks for
JudgeAnswer(jobId) ==
    IF jobId \in AlwaysFails
    THEN {r \in JudgeResponses : ~attempt(r).ok}
    ELSE {[content |-> JSONstringify(StoredResult)]}

\* the limits of the repeated call
RepeatLimits == {limit \in Limits : limit >= 1}

\* the create() calls one scoreUnscored call can make for its batch
JudgeCallsFor(batch) == maxRetries * Len(batch)

\* the first call
ScoreFirst(q, limit) ==
    /\ sc[q].pc = "none"
    /\ \E batch \in getUnscoredJobs(jobs, job_scores, limit) :
          /\ sc' = [sc EXCEPT ![q] = scoreUnscoredBegin(limit, batch, apiKey)]
          /\ judgeLeft' = JudgeCallsFor(batch)
    /\ scoreLog' = [scoreLog EXCEPT ![q] = <<>>]
    /\ UNCHANGED <<scrapeVars, pureVars, job_scores, apiKey, lastTry, lastWrite>>

\* the call after invocation q returned: scoreUnscored with the same limit
ScoreAgain(q) ==
    /\ sc[q].pc = "returned"
    /\ \E batch \in getUnscoredJobs(jobs, job_scores, sc[q].limit) :
          /\ sc' = [sc EXCEPT ![q] = scoreUnscoredBegin(sc[q].limit, batch, apiKey)]
          /\ judgeLeft' = JudgeCallsFor(batch)
    /\ scoreLog' = [scoreLog EXCEPT ![q] = <<>>]
    /\ UNCHANGED <<scrapeVars, pureVars, job_scores, apiKey, lastTry, lastWrite>>

\* the pending create() call of invocation q settles
JudgeAnswers(q) ==
    /\ sc[q].pc = "judge"
    /\ \E resp \in JudgeAnswer(sc[q].batch[sc[q].i]) : JudgeResponds(q, resp)

InitRepeat ==
    /\ Idle
    /\ \E n \in 0..MaxStored : jobs = StoreOf(n) /\ uuidCount = n
    /\ upsertsLeft = 0
    /\ apiKey = Str("sk-test")
    /\ judgeLeft = 0

NextRepeat ==
    \/ \E limit \in RepeatLimits : ScoreFirst(1, limit)
    \/ ScoreAgain(1)
    \/ JudgeAnswers(1)
    \/ BackoffElapsed(1)

\* the caller keeps calling, the judge settles every call, timers fire
FairRepeat ==
    /\ WF_vars(\E limit \in RepeatLimits : ScoreFirst(1, limit))
    /\ WF_vars(ScoreAgain(1))
    /\ WF_vars(JudgeAnswers(1))
    /\ WF_vars(BackoffElapsed(1))

SpecRepeat == InitRepeat /\ [][NextRepeat]_vars /\ FairRepeat

(***************************************************************************)
(* Properties of the ingest sink and the orchestrator.                     *)
(***************************************************************************)
SameKey(a, b) == a.source = b.source /\ a.sourceId = b.sourceId
Row(id) == scrape_runs[id]
Count(S) == Cardinality(S)

\* C1: after any sequence of upsertJob calls, also from interleaved runScraper
\* invocations for the same source, the jobs table holds at most one row per
\* (source, sourceId), and every upserted key has its row.
C1_OneRowPerSourceKey ==
    /\ \A r1, r2 \in jobs : SameKey(r1, r2) => r1 = r2
    /\ \A i \in DOMAIN upsertLog : \E r \in jobs : SameKey(r, upsertLog[i].job)

\* C1 witness: two invocations scraped the same source concurrently and both
\* upserted the same sourceId; the later-started one got there first.
C1_Witness ==
    /\ rs[1].pc = "returned" /\ rs[2].pc = "returned"
    /\ rs[1].source = rs[2].source
    /\ Len(upsertLog) = 2
    /\ upsertLog[1].by = 2 /\ upsertLog[2].by = 1
    /\ SameKey(upsertLog[1].job, upsertLog[2].job)
    /\ Count(jobs) = 1

\* what a column holds for a field value handed to upsertJob
StoredText(x) == IF x = Undefined THEN Null ELSE x
StoredJSON(x, empty) == IF x = Undefined THEN [json |-> empty] ELSE [json |-> x]

\* row r holds the fourteen mutable fields of upsertJob's argument job
HoldsFieldsOf(r, job) ==
    /\ r.url = StoredText(job.url) /\ r.title = job.title
    /\ r.company = StoredText(job.company)
    /\ r.description = StoredText(job.description)
    /\ r.location = StoredText(job.location)
    /\ r.locationType = StoredText(job.locationType)
    /\ r.seniority = StoredText(job.seniority)
    /\ r.category = StoredText(job.category)
    /\ r.salaryMin = StoredText(job.salaryMin)
    /\ r.salaryMax = StoredText(job.salaryMax)
    /\ r.tags = StoredJSON(job.tags, Arr(<<>>))
    /\ r.chains = StoredJSON(job.chains, Arr(<<>>))
    /\ r.postedAt = StoredText(job.postedAt)
    /\ r.rawData = StoredJSON(job.rawData, Obj("{}"))

\* C2: of the upsertJob calls with one (source, sourceId), the first returns
\* isNew = TRUE and every later one isNew = FALSE with the id of the first;
\* afterwards exactly one row has that key and it holds the fields of the
\* latest call.
C2_UpsertTwice ==
    \A i \in DOMAIN upsertLog :
        LET u == upsertLog[i]
            earlier == {j \in 1..(i - 1) : SameKey(upsertLog[j].job, u.job)}
            later == {j \in (i + 1)..Len(upsertLog) : SameKey(upsertLog[j].job, u.job)}
        IN  /\ u.isNew = (earlier = {})
            /\ \A j \in earlier : upsertLog[j].id = u.id
            /\ later = {} =>
                  /\ Count({r \in jobs : SameKey(r, u.job)}) = 1
                  /\ \A r \in jobs : SameKey(r, u.job) =>
                        r.id = u.id /\ HoldsFieldsOf(r, u.job)

\* C2 witness: a key was upserted twice, the second time with other values.
C2_Witness ==
    /\ Len(upsertLog) >= 2
    /\ SameKey(upsertLog[1].job, upsertLog[2].job)
    /\ upsertLog[1].job.title # upsertLog[2].job.title
    /\ upsertLog[1].isNew /\ ~upsertLog[2].isNew

\* C3: a run is opened as 'running', completeScrapeRun is called at most once
\* per run id, a run is 'running' exactly while the runScraper call that
\* opened it is still awaiting its adapter, and once that call has returned
\* or thrown the run is 'completed' or 'failed'.
C3_RunClosedOnce ==
    /\ DOMAIN closeCount = DOMAIN scrape_runs
    /\ \A id \in DOMAIN scrape_runs :
          /\ Row(id).status \in {"running", "completed", "failed"}
          /\ closeCount[id] <= 1
          /\ (Row(id).status = "running") = (closeCount[id] = 0)
          /\ (Row(id).status = "running") =
                (rs[runOwner[id]].pc = "scraping" /\ rs[runOwner[id]].runId = id)
    /\ \A p \in Calls :
          /\ rs[p].pc = "scraping" => rs[p].runId \in DOMAIN scrape_runs
          /\ (rs[p].pc \in {"returned", "threw"} /\ rs[p].runId # 0) =>
                /\ Row(rs[p].runId).status \in {"completed", "failed"}
                /\ closeCount[rs[p].runId] = 1

\* C3 witness: one run ended failed and one ended completed.
C3_Witness ==
    /\ Len(scrape_runs) = 2
    /\ Row(1).status = "failed" /\ Row(2).status = "completed"
    /\ rs[1].pc = "threw" /\ rs[2].pc = "returned"
    /\ settled[1] = [rejected |-> Num(503)]

\* the upsertJob calls invocation p made
UpsertsBy(p) == SelectSeq(upsertLog, LAMBDA u : u.by = p)

\* C4: when adapter.scrape() resolved, runScraper has upserted every returned
\* RawJob in order, closed the run as 'completed' with jobsFound = the number
\* returned and jobsNew = the number of upserts that returned isNew = TRUE,
\* and returned that pair.
C4_CompletedCounts ==
    \A p \in Calls :
        "resolved" \in DOMAIN settled[p] =>
            LET rawJobs == settled[p].resolved
                ups == UpsertsBy(p)
                nNew == Count({i \in DOMAIN ups : ups[i].isNew})
                run == Row(rs[p].runId)
            IN  /\ rs[p].pc = "returned"
                /\ Len(ups) = Len(rawJobs)
                /\ \A i \in DOMAIN ups :
                      ups[i].job = [source |-> rs[p].source] @@ rawJobs[i]
                /\ run.status = "completed" /\ run.error = Null
                /\ run.source = rs[p].source
                /\ run.jobsFound = Len(rawJobs) /\ run.jobsNew = nNew
                /\ rs[p].result = [jobsFound |-> Len(rawJobs), jobsNew |-> nNew]

\* C4 witness: a scrape returned two RawJobs of which one was new.
C4_Witness ==
    \E p \in Calls :
        /\ "resolved" \in DOMAIN settled[p] /\ Len(settled[p].resolved) = 2
        /\ rs[p].result = [jobsFound |-> 2, jobsNew |-> 1]

\* C5: when adapter.scrape() rejected with e, runScraper has closed the run as
\* 'failed' with e's message (String(e) for a non-Error), zero counts, and
\* has thrown e itself; it has no result.
C5_FailedRethrows ==
    \A p \in Calls :
        "rejected" \in DOMAIN settled[p] =>
            LET e == settled[p].rejected
                run == Row(rs[p].runId)
            IN  /\ rs[p].pc = "threw" /\ rs[p].error = e /\ rs[p].result = Null
                /\ run.status = "failed"
                /\ run.error = (IF e = Num(503) THEN Str("503") ELSE Str(e.error))
                /\ run.jobsFound = 0 /\ run.jobsNew = 0
                /\ UpsertsBy(p) = <<>>

\* C5 witness: both kinds of thrown value were seen.
C5_Witness ==
    /\ settled[1] = [rejected |-> ErrorObj("fetch failed")]
    /\ settled[2] = [rejected |-> Num(503)]
    /\ Row(rs[2].runId).error = Str("503")

\* C7 as claimed: a runScraper call with a name that is no key of the registry
\* throws at once, creates no ScrapeRun row, obtains no adapter and leaves the
\* job store as it was.
C7_UnknownSourceNoWork ==
    [][\A p \in Calls :
          (call[p] = "none" /\ call'[p] = "runScraper"
             /\ rs'[p].source \notin RegistryKeys) =>
                /\ rs'[p].pc = "threw"
                /\ rs'[p].adapter = "none"
                /\ scrape_runs' = scrape_runs
                /\ jobs' = jobs]_vars

\* the runs invocation p opened, and those of them for source s
RunsOf(p) == {id \in DOMAIN scrape_runs : runOwner[id] = p}
RunsFor(p, s) == {id \in RunsOf(p) : Row(id).source = s}
SourcesBefore(n) == {SourceOrder[i] : i \in 1..(n - 1)}

\* C6: runAllScrapers never throws; it calls runScraper once for every
\* registry key whichever of them fail, and returns one entry per key: the
\* zero pair for a source whose runScraper threw, that source's runScraper
\* result (found = its upserts, new = its new rows) otherwise.
C6_RunAllCoversEverySource ==
    \A p \in Calls :
        call[p] = "runAllScrapers" =>
            LET results == ra[p].results
                ups(s) == SelectSeq(upsertLog,
                                    LAMBDA u : u.by = p /\ u.job.source = s)
            IN  /\ ra[p].pc \in {"loop", "returned"}
                /\ DOMAIN results = SourcesBefore(ra[p].idx)
                /\ ra[p].pc = "returned" => DOMAIN results = RegistryKeys
                /\ \A s \in DOMAIN results :
                      /\ Count(RunsFor(p, s)) = 1
                      /\ \A id \in RunsFor(p, s) :
                            IF Row(id).status = "failed"
                            THEN results[s] = [jobsFound |-> 0, jobsNew |-> 0]
                            ELSE /\ Row(id).status = "completed"
                                 /\ results[s].jobsFound = Len(ups(s))
                                 /\ results[s].jobsNew =
                                       Count({i \in DOMAIN ups(s) : ups(s)[i].isNew})

\* C6 witness: a finished pass in which one source failed, a later one
\* succeeded with a job, and every source has its entry.
C6_Witness ==
    /\ ra[1].pc = "returned"
    /\ DOMAIN ra[1].results = RegistryKeys
    /\ \E id \in RunsFor(1, "safary") : Row(id).status = "failed"
    /\ ra[1].results["web3career"] = [jobsFound |-> 1, jobsNew |-> 1]
    /\ ra[1].results["safary"] = [jobsFound |-> 0, jobsNew |-> 0]

\* C8: within one runAllScrapers pass the runs are opened in registry order,
\* each only after the one before it was closed, so at most one run of the
\* pass is 'running' at any moment.
C8_OneSourceAtATime ==
    \A p \in Calls :
        call[p] = "runAllScrapers" =>
            /\ Count({id \in RunsOf(p) : Row(id).status = "running"}) <= 1
            /\ \A i, j \in RunsOf(p) : i < j => Row(i).status # "running"
            /\ \A k \in 1..Len(SourceOrder) :
                  Count(RunsFor(p, SourceOrder[k])) =
                     (IF k <= ra[p].idx /\ k <= Len(SourceOrder) THEN 1 ELSE 0)

\* C8 witness: the pass is at its third source with that run open, while a
\* concurrent single-source scrape has its own run open.
C8_Witness ==
    /\ call[1] = "runAllScrapers" /\ ra[1].idx = 3 /\ rs[1].pc = "scraping"
    /\ rs[2].pc = "scraping"
    /\ Count({id \in DOMAIN scrape_runs : Row(id).status = "running"}) = 2
    /\ Count({id \in RunsOf(1) : Row(id).status # "running"}) = 2


(***************************************************************************)
(* Properties of the scoring pipeline.                                     *)
(***************************************************************************)
\* the jobs invocation q has handed to the judge so far
Submitted(q) ==
    IF sc[q].pc \in {"judge", "backoff"} THEN sc[q].i ELSE Len(scoreLog[q])

\* the entries of invocation q's log with outcome o
Outcomes(q, o) == {k \in DOMAIN scoreLog[q] : scoreLog[q][k].outcome = o}

\* limit read as a number of jobs: a negative limit allows none
AtMost(limit) == IF limit < 0 THEN 0 ELSE limit

\* C9: whatever integer limit scoreUnscored is called with, zero and negative
\* ones included (a negative limit is read as allowing no job), one call
\* submits at most limit jobs to the judge, writes at most limit Score rows
\* and returns a count of at most limit.
C9_AtMostLimit ==
    \A q \in ScoreCalls :
        sc[q].pc # "none" =>
            /\ Submitted(q) <= AtMost(sc[q].limit)
            /\ Count(Outcomes(q, "scored")) <= AtMost(sc[q].limit)
            /\ sc[q].pc = "returned" => sc[q].ret.num <= AtMost(sc[q].limit)

\* C10: once scoreUnscored has read its batch it does not throw; it settles
\* the jobs of the batch one after the other in batch order, a job whose
\* judge call exhausted the retries is not written by this call (it has a
\* Score row only if another invocation scored it), and when the call
\* returns every job of the batch was attempted and the count returned is the
\* number of jobs whose scoreJob completed without error.
C10_NeverAbortsEarly ==
    \A q \in ScoreCalls :
        LET fr == sc[q]
            log == scoreLog[q]
        IN  /\ fr.pc = "threw" =>
                  /\ fr.error = ErrorObj("OPENAI_API_KEY not set")
                  /\ fr.batch = <<>> /\ log = <<>>
            /\ Len(log) <= Len(fr.batch)
            /\ \A k \in DOMAIN log : log[k].jobId = fr.batch[k]
            /\ fr.pc \in {"judge", "backoff"} => fr.i = Len(log) + 1
            /\ \A k \in DOMAIN log :
                  log[k].outcome = "exhausted" =>
                      \/ ~\E r \in job_scores : r.jobId = log[k].jobId
                      \/ \E r \in ScoreCalls \ {q} : \E m \in DOMAIN scoreLog[r] :
                            /\ scoreLog[r][m].jobId = log[k].jobId
                            /\ scoreLog[r][m].outcome = "scored"
            /\ fr.pc = "returned" =>
                  /\ Len(log) = Len(fr.batch)
                  /\ fr.ret = Num(Count(Outcomes(q, "scored")))

\* C10 witness: invocation 1 ran alone over a batch of two jobs; the judge
\* call of the first exhausted its retries, the second was scored, and the
\* call returned 1.
C10_Witness ==
    /\ sc[1].pc = "returned" /\ sc[2].pc = "none"
    /\ Len(sc[1].batch) = 2
    /\ scoreLog[1][1].outcome = "exhausted"
    /\ scoreLog[1][2].outcome = "scored"
    /\ sc[1].ret = Num(1)
    /\ ~\E r \in job_scores : r.jobId = sc[1].batch[1]
    /\ \E r \in job_scores : r.jobId = sc[1].batch[2]


\* the credential `if (!apiKey)` rejects
NoKey == apiKey = Undefined \/ apiKey = Str("")

\* C11: with no OPENAI_API_KEY configured every scoreUnscored call throws
\* 'OPENAI_API_KEY not set' before getUnscoredJobs is called; no judge call
\* is made and no Score row is written.
C11_NoKeyNoWork ==
    NoKey =>
        /\ \A q \in ScoreCalls :
              sc[q].pc # "none" =>
                  /\ sc[q].pc = "threw"
                  /\ sc[q].error = ErrorObj("OPENAI_API_KEY not set")
                  /\ ~sc[q].read /\ sc[q].batch = <<>>
                  /\ scoreLog[q] = <<>>
        /\ judgeLeft = MaxJudgeCalls
        /\ job_scores = {}

\* C11 witness: the key is unset, unscored jobs are stored, and both
\* invocations were made and threw.
C11_Witness ==
    /\ apiKey = Undefined
    /\ Count(Unscored(jobs, job_scores)) = MaxStored
    /\ sc[1].pc = "threw" /\ sc[2].pc = "threw"
    /\ sc[2].limit = DefaultLimit


\* the last entry of invocation q's log is for job id with outcome in os
LastLogged(q, id, os) ==
    /\ scoreLog[q] # <<>>
    /\ scoreLog[q][Len(scoreLog[q])].jobId = id
    /\ scoreLog[q][Len(scoreLog[q])].outcome \in os

\* invocation q has a create() call for job id in flight or is waiting to
\* make one
Working(q, id) ==
    sc[q].pc \in {"judge", "backoff"} /\ sc[q].batch[sc[q].i] = id

\* C12: withRetry makes at most 3 judge calls per job; an attempt that
\* succeeds ends the retries and its value is what scoreJob persists; after
\* failed attempt 0 it waits 1000 ms and after failed attempt 1 2000 ms before
\* the next attempt; after failed attempt 2 it does not wait and throws the
\* error of that attempt.
C12_RetryBackoff ==
    \A q \in ScoreCalls :
        LET fr == sc[q]
            t == lastTry[q]
        IN  /\ fr.calls <= 3
            /\ fr.pc = "backoff" =>
                  /\ t # Null /\ ~t.result.ok
                  /\ t.jobId = fr.batch[fr.i] /\ t.attempt = fr.calls - 1
                  /\ fr.calls \in {1, 2}
                  /\ fr.calls = 1 => fr.delay = 1000
                  /\ fr.calls = 2 => fr.delay = 2000
            /\ (t # Null /\ t.result.ok) =>
                  /\ ~Working(q, t.jobId)
                  /\ LastLogged(q, t.jobId, {"scored", "persistFailed"})
                  /\ LastLogged(q, t.jobId, {"scored"}) =>
                        \E r \in job_scores :
                            /\ r.jobId = t.jobId
                            /\ r.overallScore = MathRound(t.result.value.overall_score)
                            /\ r.reasoning = t.result.value.reasoning
            /\ (t # Null /\ ~t.result.ok /\ t.attempt < 2) =>
                  /\ Working(q, t.jobId)
                  /\ fr.pc = "judge" => fr.attempt = t.attempt + 1
            /\ (t # Null /\ ~t.result.ok /\ t.attempt >= 2) =>
                  /\ t.attempt = 2
                  /\ ~Working(q, t.jobId)
                  /\ LastLogged(q, t.jobId, {"exhausted"})
                  /\ scoreLog[q][Len(scoreLog[q])].thrown = t.result.error

\* C12 witness: the first job's three attempts failed, the last one with a
\* response that does not parse, which is the error thrown; the second job
\* failed twice and waits 2000 ms for its third attempt.
C12_Witness ==
    /\ Len(scoreLog[1]) = 1
    /\ scoreLog[1][1].outcome = "exhausted"
    /\ scoreLog[1][1].thrown = ErrorObj("SyntaxError")
    /\ sc[1].pc = "backoff" /\ sc[1].i = 2
    /\ sc[1].delay = 2000
    /\ lastTry[1].result.error = ErrorObj("429 rate limited")


\* resp is a completed judge response that is empty, is no JSON text, or is
\* JSON without a numeric overall_score
InvalidResponse(resp) ==
    /\ "content" \in DOMAIN resp
    /\ \/ resp.content = Undefined \/ resp.content = Str("")
       \/ "json" \notin DOMAIN resp.content
       \/ resp.content.json = Null
       \/ "tenths" \notin DOMAIN resp.content.json.overall_score

\* C13: a judge response that is empty, does not parse as JSON or has no
\* numeric overall_score is a failed attempt: nothing of it is persisted, a
\* retry follows unless it was the third attempt, and then the job is given
\* up; a job given up has no Score row, and Score rows exist only for jobs
\* logged as scored.
C13_InvalidNeverPersisted ==
    /\ \A r \in job_scores :
          \E q \in ScoreCalls :
              \E k \in Outcomes(q, "scored") : scoreLog[q][k].jobId = r.jobId
    /\ \A q \in ScoreCalls :
        LET t == lastTry[q]
        IN  /\ (t # Null /\ InvalidResponse(t.resp)) =>
                  /\ ~LastLogged(q, t.jobId, {"scored", "persistFailed"})
                  /\ ~\E r \in job_scores : r.jobId = t.jobId
                  /\ t.attempt < 2 => Working(q, t.jobId)
                  /\ t.attempt = 2 => LastLogged(q, t.jobId, {"exhausted"})
            /\ \A k \in DOMAIN scoreLog[q] :
                  scoreLog[q][k].outcome = "exhausted" =>
                      ~\E r \in job_scores : r.jobId = scoreLog[q][k].jobId

\* C13 witness: both jobs of the batch were given up, the first after an
\* empty response, the second after a response whose overall_score is a
\* string; no Score row exists and the call returned 0.
C13_Witness ==
    /\ sc[1].pc = "returned" /\ sc[1].ret = Num(0)
    /\ Len(scoreLog[1]) = 2
    /\ scoreLog[1][1].thrown = ErrorObj("Empty response from LLM")
    /\ scoreLog[1][2].thrown = ErrorObj("Invalid score format")
    /\ InvalidResponse(lastTry[1].resp)
    /\ job_scores = {}


ScoreColumns ==
    {"overallScore", "relevanceScore", "experienceMatch", "domainMatch",
     "seniorityFit"}

\* C14: in every Score row the five scores are integers between 0 and 100,
\* whatever the validated judge response held.
C14_ScoresInRange ==
    \A r \in job_scores :
        \A c \in ScoreColumns :
            /\ "num" \in DOMAIN r[c]
            /\ r[c].num >= 0 /\ r[c].num <= 100

\* C15: there is at most one Score row per job id, and a job has a row
\* exactly if some upsertScore call for it returned; the row holds what the
\* most recent such call was given (model_used included).
C15_ReplaceOnConflict ==
    /\ \A r1, r2 \in job_scores : r1.jobId = r2.jobId => r1 = r2
    /\ \A id \in JobIds :
          IF lastWrite[id] = Null
          THEN ~\E r \in job_scores : r.jobId = id
          ELSE \E r \in job_scores :
                  /\ r.jobId = id
                  /\ \A c \in DOMAIN lastWrite[id] : r[c] = lastWrite[id][c]

\* C15 witness: both invocations scored the same job from different judge
\* responses; the one row is the second invocation's.
C15_Witness ==
    /\ Len(scoreLog[1]) = 1 /\ Len(scoreLog[2]) = 1
    /\ scoreLog[1][1].jobId = scoreLog[2][1].jobId
    /\ scoreLog[1][1].outcome = "scored" /\ scoreLog[2][1].outcome = "scored"
    /\ lastTry[1].result.value # lastTry[2].result.value
    /\ \E r \in job_scores :
          /\ r.jobId = scoreLog[2][1].jobId
          /\ r.overallScore = MathRound(lastTry[2].result.value.overall_score)
    /\ Count(job_scores) = 1


(***************************************************************************)
(* Properties of the filters.                                              *)
(***************************************************************************)
\* the call of fn has been made
Called(fn) == filterIn # Null /\ filterIn.fn = fn /\ filterOut # Null

\* the location is absent, empty or all white space
Blank(location) ==
    \/ location \in {Undefined, Null}
    \/ \A i \in DOMAIN location.text : location.text[i] \in WhiteSpace

\* C16: isLocationUSOrRemote returns false exactly when the location is not
\* blank and either matches the 'outside (of) (the) US' pattern or matches
\* the non-US vocabulary without matching the US vocabulary; in every other
\* case it returns true, whatever the locationType.
C16_DecisionTable ==
    Called("isLocationUSOrRemote") =>
        LET l == filterIn.location
        IN  (filterOut.result = FALSE) <=>
                /\ ~Blank(l)
                /\ \/ test(OutsideUS, l.text)
                   \/ test(NON_US_PATTERNS, l.text) /\ ~test(US_PATTERNS, l.text)

\* C16 witness: 'outside the US' was rejected although it names the US.
C16_Witness ==
    /\ Called("isLocationUSOrRemote")
    /\ filterIn.location = Text(<<"o", "u", "t", "s", "i", "d", "e", " ", "t", "h", "e", " ", "U", "S">>)
    /\ filterOut.result = FALSE

\* some term of the vocabulary stands in s and is not part of a longer word:
\* where it begins or ends with a letter, digit or underscore, no such
\* character touches it on that side
Mentions(s, terms) ==
    \E i \in DOMAIN s :
        \E j \in Ends(Alt(terms), s, i) :
            /\ j > i
            /\ IsWordAt(s, i) => ~IsWordAt(s, i - 1)
            /\ IsWordAt(s, j - 1) => ~IsWordAt(s, j)

\* C17: a location that mentions a non-US term and no US term is rejected,
\* and one that mentions a non-US term and a US term is accepted (strings
\* carrying the 'outside (of) (the) US' phrase, which the decision table
\* rejects first, are left aside).
C17_USTermFlips ==
    (Called("isLocationUSOrRemote") /\ "text" \in DOMAIN filterIn.location) =>
        LET s == filterIn.location.text
        IN  /\ (Mentions(s, NonUSTerms) /\ ~Mentions(s, USTerms)) =>
                  filterOut.result = FALSE
            /\ (Mentions(s, NonUSTerms) /\ Mentions(s, USTerms)
                                         /\ ~test(OutsideUS, s)) =>
                  filterOut.result = TRUE

\* the junior-signal vocabulary; "?" stands for the one character, other than
\* a line break, between entry and level
JuniorWords ==
    {<<"i", "n", "t", "e", "r", "n">>, <<"i", "n", "t", "e", "r", "n", "s", "h", "i", "p">>,
     <<"j", "u", "n", "i", "o", "r">>, <<"j", "r">>,
     <<"e", "n", "t", "r", "y", "?", "l", "e", "v", "e", "l">>,
     <<"g", "r", "a", "d", "u", "a", "t", "e">>, <<"t", "r", "a", "i", "n", "e", "e">>}

\* w stands in s from position i on, in any case
OccursAt(s, w, i) ==
    /\ i + Len(w) - 1 <= Len(s)
    /\ \A k \in DOMAIN w :
          IF w[k] = "?" THEN s[i + k - 1] # "\n" ELSE Lower(s[i + k - 1]) = w[k]

\* ... and is not part of a longer word
WholeWordAt(s, w, i) ==
    OccursAt(s, w, i) /\ ~IsWordAt(s, i - 1) /\ ~IsWordAt(s, i + Len(w))

\* C18: the title pattern is true of every title that has a junior-signal
\* term as a whole word, and false of every title in which such terms occur
\* only inside longer words.
C18_TitleWholeWord ==
    Called("isExcludedTitle") =>
        LET s == filterIn.title.text
            occurs == \E w \in JuniorWords : \E i \in DOMAIN s : OccursAt(s, w, i)
            whole == \E w \in JuniorWords : \E i \in DOMAIN s : WholeWordAt(s, w, i)
        IN  /\ whole => filterOut.result = TRUE
            /\ (occurs /\ ~whole) => filterOut.result = FALSE

\* C18 witness: 'Internal' holds intern inside a longer word and is not
\* excluded.
C18_Witness ==
    /\ Called("isExcludedTitle")
    /\ filterIn.title = Text(<<"I", "n", "t", "e", "r", "n", "a", "l">>)
    /\ filterOut.result = FALSE

(***************************************************************************)
(* Properties of the adapters.                                             *)
(***************************************************************************)
\* scrape() was called and resolved with a sequence of RawJobs
Returned == scraped # Null /\ "jobs" \in DOMAIN scraped

\* every listing the source showed during the run
AllShown == served.shown.first \o served.shown.second

\* C19: every RawJob a scrape() of any of the four adapters returns has a
\* title the title pattern does not match and a location, with its
\* locationType where the adapter sets one, that isLocationUSOrRemote accepts.
C19_FiltersApplied ==
    Returned =>
        \A i \in DOMAIN scraped.jobs :
            LET job == scraped.jobs[i]
            IN  /\ ~isExcludedTitle(job.title.text)
                /\ isLocationUSOrRemote(job.location, job.locationType)

\* C19 witness: JobStash showed a listing that a filter refuses and one
\* that passes, and scrape() returned the one that passes.
C19_Witness ==
    /\ Returned /\ served.adapter = "jobstash"
    /\ Len(scraped.jobs) = 1
    /\ \E k \in DOMAIN AllShown :
          \/ isExcludedTitle(AllShown[k].title)
          \/ ~isLocationUSOrRemote(Text(AllShown[k].location), AllShown[k].locationType)

\* C20: the sequence one scrape() returns holds no two RawJobs with the same
\* sourceId.
C20_NoDuplicateSourceIds ==
    Returned =>
        \A i, j \in DOMAIN scraped.jobs :
            i # j => scraped.jobs[i].sourceId # scraped.jobs[j].sourceId

\* JobStash: the response the source gives to the fetch of page k
PageServed(k) == IF k <= Len(served.pages) THEN served.pages[k] ELSE served.rest

\* the page fetches scrape() has made so far, in order
Fetches ==
    SelectSeq(IF "acc" \in DOMAIN scraped THEN scraped.acc.trace ELSE scraped.trace,
              LAMBDA e : e.op = "fetch")

\* a JobStash job with a numeric seniority code below 2
IsJunior(job) ==
    /\ ~Falsy(job.seniority)
    /\ "num" \in DOMAIN parseInt(job.seniority.text)
    /\ parseInt(job.seniority.text).num < 2

\* where the jobs of the pages JobStash's scrape() fetched stand: <<k, i>> is
\* the i-th job of page k
FetchedAt ==
    {x \in (1..Len(Fetches)) \X (1..PAGE_LIMIT) :
        PageServed(x[1]).status = "ok" /\ x[2] <= Len(PageServed(x[1]).data)}

JobAt(x) == PageServed(x[1]).data[x[2]]

\* C21: when JobStash's scrape() returns, the skipped-by-seniority count is
\* the number of fetched jobs with a seniority code below 2, whatever their
\* title and location, and kept, skipped-by-seniority, skipped-by-title and
\* skipped-by-location sum to the number of jobs fetched.
C21_SeniorityFirst ==
    (Returned /\ served.adapter = "jobstash") =>
        LET c == scraped.counts
        IN  /\ c.skippedSeniority = Cardinality({x \in FetchedAt : IsJunior(JobAt(x))})
            /\ c.fetched = Cardinality(FetchedAt)
            /\ c.kept + c.skippedSeniority + c.skippedTitle + c.skippedLocation = c.fetched
            /\ c.skippedTitle =
                  Cardinality({x \in FetchedAt : /\ ~IsJunior(JobAt(x))
                                                 /\ isExcludedTitle(JobAt(x).title.text)})

\* C21 witness: a full page of twenty jobs, eighteen of them juniors with an
\* excluded title, one skipped by its title alone and one kept.
C21_Witness ==
    /\ Returned /\ served.adapter = "jobstash"
    /\ scraped.counts.fetched = PAGE_LIMIT
    /\ scraped.counts.skippedSeniority = PAGE_LIMIT - 2
    /\ scraped.counts.skippedTitle = 1
    /\ scraped.counts.kept = 1

\* C22: JobStash's scrape() fetches pages 1, 2, 3, ... in order and at most
\* JobStashMaxPages of them; every page before the last one fetched came
\* with an OK status and a full page of rows; and when scrape() returns it
\* returns every job of the fetched pages that passes the filters.
C22_PagesInOrder ==
    (scraped # Null /\ served.adapter = "jobstash") =>
        /\ Len(Fetches) <= JobStashMaxPages
        /\ \A k \in DOMAIN Fetches : Fetches[k].page = k
        /\ \A k \in DOMAIN Fetches :
              k < Len(Fetches) =>
                  PageServed(k).status = "ok" /\ Len(PageServed(k).data) >= PAGE_LIMIT
        /\ Returned =>
              Len(scraped.jobs) =
                  Cardinality({x \in FetchedAt :
                                  /\ ~IsJunior(JobAt(x))
                                  /\ ~isExcludedTitle(JobAt(x).title.text)
                                  /\ isLocationUSOrRemote(JobAt(x).location,
                                                          JobAt(x).locationType)})

\* C22 witness: the source never ran out of full pages; scrape() returned
\* after JobStashMaxPages fetches with the job it kept from page 1.
C22_Witness ==
    /\ Returned /\ served.adapter = "jobstash"
    /\ Len(Fetches) = JobStashMaxPages
    /\ Len(scraped.jobs) = 1

\* the page fetches and pauses scrape() has made so far, in order
Trace == IF "acc" \in DOMAIN scraped THEN scraped.acc.trace ELSE scraped.trace

\* C25: in one scrape() of JobStash or Web3Career every page fetch after the
\* first comes directly after a pause of DELAY_MS.
C25_DelayBeforeEveryFetch ==
    (scraped # Null /\ served.adapter \in {"jobstash", "web3career"}) =>
        \A k \in DOMAIN Trace :
            (k > 1 /\ Trace[k].op = "fetch") =>
                Trace[k - 1].op = "delay" /\ Trace[k - 1].ms = DELAY_MS

\* C23: when scrape() of CryptoJobsList or Safary has returned or thrown,
\* the browser it launched has been closed.
C23_BrowserClosed ==
    (scraped # Null /\ served.adapter \in {"cryptojobslist", "safary"}) =>
        \A k \in DOMAIN Trace :
            Trace[k].op = "launch" =>
                \E m \in DOMAIN Trace : m > k /\ Trace[m].op = "closeBrowser"

\* in CryptoJobsList's run something went wrong inside category c: the
\* navigation threw, no job link ever appeared, or the extraction threw
FailedIn(c) ==
    /\ served.adapter = "cryptojobslist" /\ served.setup = "ok"
    /\ served.site[c].fault \in {"goto", "antibot", "extract"}

\* C24: when something goes wrong inside one category of CryptoJobsList,
\* scrape() still returns; the page of that category is closed, a page is
\* opened for every category, and the jobs returned are the ones scrape()
\* returns when that category shows nothing.
C24_FailureConfined ==
    \A c \in DOMAIN CATEGORY_PATHS :
        (scraped # Null /\ FailedIn(c)) =>
            /\ Returned
            /\ \E k \in DOMAIN Trace : Trace[k] = [op |-> "closePage", category |-> c]
            /\ \A d \in DOMAIN CATEGORY_PATHS :
                  \E k \in DOMAIN Trace : Trace[k] = [op |-> "newPage", category |-> d]
            /\ scraped.jobs =
                  cryptojobslistScrape("ok",
                      [served.site EXCEPT ![c] = [fault |-> "none", links |-> <<>>]]).jobs

\* C24 witness: the extraction of the second category threw although the
\* category showed a listing, and scrape() returned the job of the first.
C24_Witness ==
    /\ scraped # Null /\ FailedIn(2) /\ served.site[2].fault = "extract"
    /\ served.site[2].links # <<>>
    /\ Returned /\ Len(scraped.jobs) = 1

(***************************************************************************)
(* Properties of scrapes over a scored database.                           *)
(***************************************************************************)
\* the (source, sourceId) the stored job with this id was inserted under
StoredKey(id) == [source |-> "jobstash", sourceId |-> StoredBatch[id.uuid].sourceId]

\* the jobs rows that carry the key of a job scored before the scrapes
ScoredBefore == {j \in jobs : \E r \in job_scores : SameKey(j, StoredKey(r.jobId))}

\* C26: upsertJob on an existing (source, sourceId) keeps the id of the first
\* insert and returns it, so a score row stays attached to its job: every
\* score row still names the row of the key it was written for, every upsert
\* returned the id of the row that now holds its key, and no result of
\* getUnscoredJobs (read one row at a time, so that every row it can return
\* is looked at) holds a job that was scored before it was scraped again.
C26_ScoreStaysAttached ==
    /\ \A r \in job_scores :
          \E j \in jobs : j.id = r.jobId /\ SameKey(j, StoredKey(r.jobId))
    /\ \A i \in DOMAIN upsertLog :
          \E j \in jobs : j.id = upsertLog[i].id /\ SameKey(j, upsertLog[i].job)
    /\ \A batch \in getUnscoredJobs(jobs, job_scores, 1) :
          \A i \in DOMAIN batch : \A j \in ScoredBefore : batch[i] # j.id

\* a scored job was scraped again with other field values, and with it a job
\* that was not stored before
C26_Witness ==
    /\ \E i \in DOMAIN upsertLog :
          /\ ~upsertLog[i].isNew
          /\ \E j \in ScoredBefore :
                /\ j.id = upsertLog[i].id
                /\ upsertLog[i].job.title # StoredBatch[j.id.uuid].title
    /\ \E i \in DOMAIN upsertLog : upsertLog[i].isNew
    /\ \E batch \in getUnscoredJobs(jobs, job_scores, 1) : batch # <<>>

(***************************************************************************)
(* Properties of the orchestrator's effect on the job store.               *)
(***************************************************************************)
\* C27: the step in which runScraper's adapter.scrape() throws makes no
\* upsertJob call and leaves the jobs table as it was: of the database only
\* the run's own scrape_runs row changes, to 'failed', and the invocation
\* has made no upsert at all.
C27_FailedRunLeavesStore ==
    [][\A p \in Calls :
          (rs[p].pc = "scraping" /\ rs'[p].pc = "threw") =>
              /\ jobs' = jobs /\ uuidCount' = uuidCount /\ upsertLog' = upsertLog
              /\ \A i \in DOMAIN upsertLog' : upsertLog'[i].by # p
              /\ DOMAIN scrape_runs' = DOMAIN scrape_runs
              /\ \A id \in DOMAIN scrape_runs :
                    IF id = rs[p].runId
                    THEN scrape_runs[id].status = "running"
                         /\ scrape_runs'[id].status = "failed"
                    ELSE scrape_runs'[id] = scrape_runs[id]]_vars

\* a scrape failed while the table held jobs of its source, stored by another
\* invocation
C27_Witness ==
    \E p \in Calls :
        /\ "rejected" \in DOMAIN settled[p] /\ rs[p].pc = "threw"
        /\ \E j \in jobs : j.source = rs[p].source
        /\ Row(rs[p].runId).status = "failed"

\* C28: the step in which runScraper upserts what its adapter returned and
\* closes the run as 'completed' records jobsNew <= jobsFound, and the jobs
\* table has jobsNew rows more after the step than before it, also when the
\* adapter returned RawJobs that share a sourceId.  The loop has no await, so
\* no other writer acts within the step.
C28_NewRowsCounted ==
    [][\A p \in Calls :
          (rs[p].pc = "scraping" /\ rs'[p].pc = "returned") =>
              LET run == scrape_runs'[rs[p].runId]
              IN  /\ run.status = "completed"
                  /\ run.jobsFound = Len(settled'[p].resolved)
                  /\ run.jobsNew <= run.jobsFound
                  /\ Cardinality(jobs') = Cardinality(jobs) + run.jobsNew]_vars

\* a run completed whose adapter returned the same sourceId twice with
\* different field values: two found, one new, one row
C28_Witness ==
    \E p \in Calls :
        /\ "resolved" \in DOMAIN settled[p] /\ rs[p].pc = "returned"
        /\ Len(settled[p].resolved) = 2
        /\ settled[p].resolved[1].sourceId = settled[p].resolved[2].sourceId
        /\ settled[p].resolved[1] # settled[p].resolved[2]
        /\ Row(rs[p].runId).status = "completed"
        /\ Row(rs[p].runId).jobsFound = 2 /\ Row(rs[p].runId).jobsNew = 1
        /\ Cardinality(jobs) = 1

(***************************************************************************)
(* Properties of interleaved and repeated scoring calls.                   *)
(***************************************************************************)
\* invocation q is between its read of the batch and its return
InFlight(q) == sc[q].pc \in {"judge", "backoff"}

\* the ids of the jobs invocation q has handed to the judge so far
SubmittedJobs(q) == {sc[q].batch[k] : k \in 1..Submitted(q)}

\* C29 as claimed: when two scoreUnscored invocations interleave, no job is
\* submitted to the judge by both, and the counts they return add up to at
\* most the number of jobs that were unscored when the first one started
\* (every stored job: no score row exists before the first call).
C29_NoJobSubmittedTwice ==
    /\ (InFlight(1) /\ InFlight(2)) => SubmittedJobs(1) \cap SubmittedJobs(2) = {}
    /\ (sc[1].pc = "returned" /\ sc[2].pc = "returned") =>
          sc[1].ret.num + sc[2].ret.num <= Cardinality(jobs)

\* every stored job whose judge call succeeds has a score row
GoodJobsScored ==
    \A j \in jobs : j.id \notin AlwaysFails => \E r \in job_scores : r.jobId = j.id

\* C30 as claimed: once scoreUnscored(limit) with limit >= 1 is called again
\* and again, every job whose judge call would succeed eventually has a
\* score row, whatever jobs fail every time.
C30_GoodJobsEventuallyScored ==
    (sc[1].pc # "none" /\ sc[1].limit >= 1) ~> GoodJobsScored

====
